---------------------------- MODULE Spec2Model ----------------------------
(***************************************************************************)
(* Lunarian ad-layout and composition engine (backend/main.py, with the    *)
(* same helpers duplicated in backend/app.py).                             *)
(*                                                                         *)
(* Python floats are IEEE-754 binary64.  A float is modelled exactly as a  *)
(* record [p, s, d, e] standing for the real number                        *)
(*        p/d + s/(d * 2^e)                                                *)
(* a rational "main part" p/d plus the accumulated rounding error, so that *)
(* int(), comparisons and round-to-nearest-even can be computed with small *)
(* integers only (the 53-bit mantissa is never materialised: only its      *)
(* remainders modulo small numbers are needed).                            *)
(***************************************************************************)
EXTENDS Integers, Sequences, FiniteSets, TLC

VARIABLES cv, ff, wf, rq

vars == <<cv, ff, wf, rq>>

Max2(a, b) == IF a >= b THEN a ELSE b
Min2(a, b) == IF a <= b THEN a ELSE b
AbsInt(a) == IF a < 0 THEN -a ELSE a

(***************************************************************************)
(* IEEE-754 binary64 arithmetic                                            *)
(***************************************************************************)
\* sys.float_info.mant_dig - 1: the exponent that scales a value in
\* [2^L, 2^(L+1)) to a 53-bit integer mantissa is MantBits - L.
MantBits == 52

RECURSIVE Pow2(_)
Pow2(n) ==
    IF n <= 0 THEN 1
    ELSE IF n % 2 = 0 THEN Pow2(n \div 2) * Pow2(n \div 2)
    ELSE 2 * Pow2(n - 1)

\* (a * b) mod m for 0 <= a, b < m, without leaving the 32-bit range
RECURSIVE MulMod(_, _, _)
MulMod(a, b, m) ==
    IF b = 0 THEN 0
    ELSE LET h == MulMod(a, b \div 2, m)
         IN  (((2 * h) % m) + (IF b % 2 = 1 THEN a ELSE 0)) % m

\* (a * b) mod m for 0 <= a, b < m
ModMul(a, b, m) == IF m <= 46340 THEN (a * b) % m ELSE MulMod(a, b, m)

\* 2^k mod m
RECURSIVE Pow2Mod(_, _)
Pow2Mod(k, m) ==
    IF k <= 0 THEN 1 % m
    ELSE IF k % 2 = 0 THEN ModMul(Pow2Mod(k \div 2, m), Pow2Mod(k \div 2, m), m)
    ELSE (2 * Pow2Mod(k - 1, m)) % m

\* floor(log2(p/d)) for p, d > 0: that of the integer quotient when p >= d,
\* else minus the least m with d/p <= 2^m
Log2Floor(p, d) ==
    IF p >= d THEN CHOOSE l \in 0 .. 30 : Pow2(l) <= p \div d /\ (p \div d) \div 2 < Pow2(l)
    ELSE -(CHOOSE m \in 1 .. 30 : (d + p - 1) \div p <= Pow2(m))

Fl(p, s, d, e) == [p |-> p, s |-> s, d |-> d, e |-> e]
FromInt(n) == Fl(n, 0, 1, 0)
FNeg(x) == Fl(-x.p, -x.s, x.d, x.e)

\* Round-to-nearest, ties-to-even, of a positive value x in the binade
\* [2^L, 2^(L+1)).  With E = MantBits - L the mantissa is x * 2^E rounded to an
\* integer.  Writing x * 2^E = N / D with N = p * 2^k + S and D = d * 2^(k-E),
\* the remainder R = N mod D and the quotient's parity (from R2 = N mod 2D)
\* decide the rounding; the rounded value keeps p and d and replaces the error
\* term.  p * 2^k mod (d * 2^(k-E)) is 2^(k-E) * (p * 2^E mod d).
Rounded(x, k, s2) == Fl(x.p, s2, x.d, IF s2 = 0 THEN 0 ELSE k)
RoundPick(x, k, D, S, R, R2) ==
    Rounded(x, k, S - R + (IF 2 * R > D \/ (2 * R = D /\ R2 >= D) THEN D ELSE 0))
ScaledRem(p, E, m) == ModMul(p % m, Pow2Mod(E, m), m)
RoundWith(x, k, E, D, S) ==
    RoundPick(x, k, D, S,
              (Pow2(k - E) * ScaledRem(x.p, E, x.d) + S) % D,
              (Pow2(k - E) * ScaledRem(x.p, E, 2 * x.d) + S) % (2 * D))
RoundAtScale(x, E, k) ==
    RoundWith(x, k, E, x.d * Pow2(k - E), IF x.s = 0 THEN 0 ELSE x.s * Pow2(k - x.e))
RoundInBinade(x, L) ==
    RoundAtScale(x, MantBits - L,
                 IF x.s = 0 THEN MantBits - L ELSE Max2(MantBits - L, x.e))
\* floor(log2(x)): that of the main part, one less when the main part is a
\* power of two and the error term is negative
BinadeAdjust(x, L0) ==
    IF x.s < 0 /\ (IF L0 >= 0 THEN x.p = x.d * Pow2(L0) ELSE x.p * Pow2(-L0) = x.d)
    THEN L0 - 1 ELSE L0
FRoundPos(x) == RoundInBinade(x, BinadeAdjust(x, Log2Floor(x.p, x.d)))

\* The double nearest to the real x.  A value with p = 0 is the difference
\* of two doubles within a factor two of each other, which is exact.
FSigned(sign, x) == IF sign < 0 THEN FNeg(x) ELSE x
FRound(x) ==
    IF x.p = 0 THEN Fl(0, x.s, x.d, IF x.s = 0 THEN 0 ELSE x.e)
    ELSE FSigned(x.p, FRoundPos(FSigned(x.p, x)))

Sign(n) == IF n > 0 THEN 1 ELSE IF n < 0 THEN -1 ELSE 0

\* sign of x - y
FCmpError(x, y, m) ==
    IF x.s = 0 THEN -Sign(y.s)
    ELSE IF y.s = 0 THEN Sign(x.s)
    ELSE Sign(x.s * y.d * Pow2(y.e - m) - y.s * x.d * Pow2(x.e - m))
FCmpMain(x, y, main) == IF main # 0 THEN Sign(main) ELSE FCmpError(x, y, Min2(x.e, y.e))
FCmp(x, y) == FCmpMain(x, y, x.p * y.d - y.p * x.d)

\* Python max(a, b) / min(a, b): the first argument wins a tie
FMax(x, y) == IF FCmp(y, x) > 0 THEN y ELSE x
FMin(x, y) == IF FCmp(y, x) < 0 THEN y ELSE x

\* a / b for ints a, b with b > 0
FDivInts(a, b) == FRound(Fl(a, 0, b, 0))
\* x * n and x / n for a float x and an int n
FMulInt(x, n) == FRound(Fl(x.p * n, x.s * n, x.d, x.e))
FDivInt(x, n) == FRound(Fl(x.p, x.s, x.d * n, x.e))
\* x * (k/2), x - k/2 and x + n: k/2 is a half-integer, exact as a double
FMulHalf(x, k) == FRound(Fl(x.p * k, x.s * k, 2 * x.d, x.e))
FSubHalf(x, k) == FRound(Fl(2 * x.p - k * x.d, 2 * x.s, 2 * x.d, x.e))
FAddInt(x, n) == FRound(Fl(x.p + n * x.d, x.s, x.d, x.e))

\* int(x): truncation toward zero
FFloorPos(x) == (x.p \div x.d) - (IF x.p % x.d = 0 /\ x.s < 0 THEN 1 ELSE 0)
FIntSigned(sign, x) == sign * FFloorPos(FSigned(sign, x))
FInt(x) == FIntSigned(IF x.p < 0 \/ (x.p = 0 /\ x.s < 0) THEN -1 ELSE 1, x)


\* int(n / x) for an int n >= 0 and a double x > 0.  With x = (p/d)(1 + t),
\* t = s / (p * 2^e), the quotient is q / (1 + t) for q = n*d/p.  Unless q is
\* an integer the error t cannot carry the quotient across an integer.  When q
\* is an integer and s > 0 the quotient lies q*s / (p * 2^e + s) below q, and
\* it rounds to q exactly when that is within half an ulp 2^-a of q.
HalfUlpShift(q, j) == IF q = Pow2(j) THEN MantBits + 2 - j ELSE MantBits + 1 - j
RoundsUpTo(q, x, a) ==
    IF a >= x.e THEN q * x.s * Pow2(a - x.e) <= x.p
    ELSE q * x.s <= x.p * Pow2(x.e - a)
DivExactQuotient(q, x) ==
    IF RoundsUpTo(q, x, HalfUlpShift(q, Log2Floor(q, 1))) THEN q ELSE q - 1
FIntDivByFloat(n, x) ==
    IF n = 0 THEN 0
    ELSE IF (n * x.d) % x.p # 0 \/ x.s <= 0 THEN (n * x.d) \div x.p
    ELSE DivExactQuotient((n * x.d) \div x.p, x)


(***************************************************************************)
(* Hero canvas compositor: create_base_canvas_with_hero                    *)
(***************************************************************************)
\* hero_bbox = None
NoBBox == <<>>

\* float("inf")
Inf == Fl(1, 0, 0, 0)
IsInf(x) == x.d = 0
FMinInf(x, y) == IF IsInf(x) THEN (IF IsInf(y) THEN x ELSE y)
                 ELSE IF IsInf(y) THEN x ELSE FMin(x, y)
FMaxInf(x, y) == IF IsInf(x) THEN x ELSE IF IsInf(y) THEN y ELSE FMax(x, y)

\* hero_prominence: float = 0.7
HeroProminence == FRound(Fl(7, 0, 10, 0))

\* The composed canvas: the size the source was resized to, the box cropped
\* from the resized image and pasted at the canvas origin, and the scale.
\* "blank" is the untouched background canvas, "raise" an OverflowError.
Canvas(regime, scale, rw, rh, box) ==
    [regime |-> regime, scale |-> scale, resized |-> <<rw, rh>>, crop |-> box]
BlankCanvas == Canvas("blank", FromInt(0), 0, 0, <<0, 0, 0, 0>>)
RaisedCanvas == Canvas("raise", Inf, 0, 0, <<0, 0, 0, 0>>)

\* max(tw / iw if iw > 0 else 1, th / ih if ih > 0 else 1)
ScaleToCoverCanvas(iw, ih, tw, th) ==
    FMax(IF iw > 0 THEN FDivInts(tw, iw) ELSE FromInt(1),
         IF ih > 0 THEN FDivInts(th, ih) ELSE FromInt(1))

\* the "no usable hero" branch: cover scale, then centre crop
CenterCrop(scale, rw, rh, tw, th, cx, cy) ==
    Canvas("cover", scale, rw, rh,
           <<Max2(0, cx), Max2(0, cy), Min2(rw, cx + tw), Min2(rh, cy + th)>>)
CoverResized(scale, rw, rh, tw, th) ==
    CenterCrop(scale, rw, rh, tw, th, (rw - tw) \div 2, (rh - th) \div 2)
CoverScaled(iw, ih, tw, th, scale) ==
    CoverResized(scale, FInt(FMulInt(scale, iw)), FInt(FMulInt(scale, ih)), tw, th)
CoverCrop(iw, ih, tw, th) ==
    CoverScaled(iw, ih, tw, th, ScaleToCoverCanvas(iw, ih, tw, th))

\* if h_w <= 0 or h_h <= 0
DegenerateWidthOnly(bbox) == bbox[3] - bbox[1] <= 0
IsDegenerate(bbox) == bbox[3] - bbox[1] <= 0 \/ bbox[4] - bbox[2] <= 0

ScaleToFillArea(area, h) ==
    IF h > 0 THEN FDivInts(area, h) ELSE Inf
\* (hero_area_w * hero_prominence) / h_w if h_w > 0 else float("inf")
ScaleNeededForHero(area, h) ==
    IF h > 0 THEN FDivInt(FMulInt(HeroProminence, area), h) ELSE Inf

\* final_scale = max(scale_for_hero, scale_to_cover_canvas)
FinalScaleMin(scale_for_hero, scale_to_cover_canvas) ==
    FMinInf(scale_for_hero, scale_to_cover_canvas)
FinalScale(scale_for_hero, scale_to_cover_canvas) ==
    FMaxInf(scale_for_hero, scale_to_cover_canvas)

\* max(0, min(crop, limit)) for a float crop and an int limit
ClampCropUpperOnly(crop, limit) == FMin(crop, FromInt(limit))
ClampCrop(crop, limit) == FMax(FromInt(0), FMin(crop, FromInt(limit)))

\* scaled_iw = max(tw, int(iw * final_scale))
ScaledSide(t, i, final_scale) == Max2(t, FInt(FMulInt(final_scale, i)))

\* the "usable hero" branch.  hcx = x1 + h_w / 2 and the target centre
\* hero_area_x + hero_area_w / 2 are half-integers, carried as twice their value.
HeroPaste(final_scale, scaled_iw, scaled_ih, tw, th, crop_x, crop_y) ==
    Canvas("hero", final_scale, scaled_iw, scaled_ih,
           <<FInt(crop_x), FInt(crop_y),
             FInt(FAddInt(crop_x, tw)), FInt(FAddInt(crop_y, th))>>)
HeroResizedToCanvasCentre(final_scale, scaled_iw, scaled_ih, tw, th, hcx2, hcy2, tcx2, tcy2) ==
    HeroPaste(final_scale, scaled_iw, scaled_ih, tw, th,
              ClampCrop(FSubHalf(FMulHalf(final_scale, hcx2), tw), scaled_iw - tw),
              ClampCrop(FSubHalf(FMulHalf(final_scale, hcy2), th), scaled_ih - th))
HeroResized(final_scale, scaled_iw, scaled_ih, tw, th, hcx2, hcy2, tcx2, tcy2) ==
    HeroPaste(final_scale, scaled_iw, scaled_ih, tw, th,
              ClampCrop(FSubHalf(FMulHalf(final_scale, hcx2), tcx2), scaled_iw - tw),
              ClampCrop(FSubHalf(FMulHalf(final_scale, hcy2), tcy2), scaled_ih - th))
HeroScaled(iw, ih, tw, th, hcx2, hcy2, tcx2, tcy2, final_scale) ==
    IF IsInf(final_scale) THEN RaisedCanvas
    ELSE HeroResized(final_scale, ScaledSide(tw, iw, final_scale),
                     ScaledSide(th, ih, final_scale), tw, th, hcx2, hcy2, tcx2, tcy2)
HeroCrop(iw, ih, tw, th, bbox, hax, hay, haw, hah) ==
    HeroScaled(iw, ih, tw, th,
               2 * bbox[1] + (bbox[3] - bbox[1]), 2 * bbox[2] + (bbox[4] - bbox[2]),
               2 * hax + haw, 2 * hay + hah,
               FinalScale(FMinInf(ScaleNeededForHero(haw, bbox[3] - bbox[1]),
                                  ScaleNeededForHero(hah, bbox[4] - bbox[2])),
                          ScaleToCoverCanvas(iw, ih, tw, th)))

create_base_canvas_with_hero(iw, ih, tw, th, hero_bbox, hax, hay, haw, hah) ==
    IF iw = 0 \/ ih = 0 THEN BlankCanvas
    ELSE IF \/ hero_bbox = NoBBox \/ haw <= 0 \/ hah <= 0
            \/ IsDegenerate(hero_bbox) THEN CoverCrop(iw, ih, tw, th)
    ELSE HeroCrop(iw, ih, tw, th, hero_bbox, hax, hay, haw, hah)

(***************************************************************************)
(* The compositor applied to one drawn input                               *)
(***************************************************************************)
MaxSrcW == 11
MaxTgtW == 15
SrcWidths == 0 .. MaxSrcW
SrcHeights == {1, 3}
TgtWidths == 1 .. MaxTgtW
TgtHeights == {1, 2}
HeroBoxes == {NoBBox, <<0, 0, 0, 0>>, <<0, 0, 1, 0>>, <<2, 1, 1, 2>>, <<0, 0, 1, 1>>, <<2, 0, 5, 2>>,
              <<4, 1, 8, 3>>}
HeroAreas == {<<0, 0, 4, 2>>, <<-3, 0, 1, 1>>, <<40, 1, 2, 3>>, <<1, 1, 0, 2>>}

NotRun == [regime |-> "notrun"]
Idle == [pc |-> "idle"]

CanvasInit ==
    /\ cv \in [iw : SrcWidths, ih : SrcHeights, tw : TgtWidths, th : TgtHeights,
               bbox : HeroBoxes, area : HeroAreas, out : {NotRun}]
    /\ ff = Idle
    /\ wf = Idle
    /\ rq = Idle

Compose ==
    /\ cv # Idle
    /\ cv.out = NotRun
    /\ cv' = [cv EXCEPT !.out = create_base_canvas_with_hero(
                  cv.iw, cv.ih, cv.tw, cv.th, cv.bbox,
                  cv.area[1], cv.area[2], cv.area[3], cv.area[4])]
    /\ UNCHANGED <<ff, wf, rq>>

CanvasNext == Compose

SpecCanvas == CanvasInit /\ [][CanvasNext]_vars

(***************************************************************************)
(* Font metrics probe: find_font_size_for_height                           *)
(*                                                                         *)
(* A font is what PIL reports for it: the ink height of "Aj" and the ink   *)
(* width of a string at a pixel size.  kind "ttf" is a font file that      *)
(* loads (asc: ink height of "Aj" in tenths of the size, dip: hinting loss *)
(* at odd sizes, wid: advance scale in tenths); "missing" is a path that   *)
(* ImageFont.truetype cannot load; "nobbox" a font whose getbbox raises.   *)
(***************************************************************************)
\* min_size: int = 10, max_size: int = 128
MinSize == 10
MaxSize == 128
\* ink height of "Aj" in ImageFont.load_default(), whatever size was asked
DefaultFontHeight == 11
\* best_diff = float('inf')
InfDiff == -1

Font(kind, asc, dip, wid) == [kind |-> kind, asc |-> asc, dip |-> dip, wid |-> wid]

\* the height h the search compares with the target at size mid
HeightAt(font, mid) ==
    CASE font.kind = "ttf" ->
             (font.asc * mid) \div 10 - (IF mid % 2 = 1 THEN font.dip ELSE 0)
      [] font.kind = "missing" -> DefaultFontHeight
      [] OTHER -> mid

FontStart(target_height, font) ==
    [pc |-> "loop", target |-> Max2(1, target_height), font |-> font,
     low |-> MinSize, high |-> MaxSize,
     best_size |-> MinSize, best_diff |-> InfDiff, result |-> 0, steps |-> 0]

\* if diff < best_diff: best_diff = diff; best_size = mid
TrackLast(st, mid, diff) == [st EXCEPT !.best_diff = diff, !.best_size = mid]
TrackBest(st, mid, diff) ==
    IF st.best_diff = InfDiff \/ diff < st.best_diff
    THEN [st EXCEPT !.best_diff = diff, !.best_size = mid]
    ELSE st

\* h < target: low = mid + 1; h > target: high = mid - 1; else return mid
Narrow(st, mid, h) ==
    IF h < st.target THEN [st EXCEPT !.low = mid + 1, !.steps = @ + 1]
    ELSE IF h > st.target THEN [st EXCEPT !.high = mid - 1, !.steps = @ + 1]
    ELSE [st EXCEPT !.pc = "done", !.result = mid, !.steps = @ + 1]

ProbeHeight(st, mid, h) == Narrow(TrackBest(st, mid, AbsInt(h - st.target)), mid, h)
ProbeMid(st, mid) ==
    IF mid <= 0 THEN [st EXCEPT !.low = 1]
    ELSE ProbeHeight(st, mid, HeightAt(st.font, mid))

\* one evaluation of `while low <= high`
FontLoopStep(st) ==
    IF st.low <= st.high THEN ProbeMid(st, (st.low + st.high) \div 2)
    ELSE [st EXCEPT !.pc = "done", !.result = st.best_size]

RECURSIVE FontRun(_)
FontRun(st) == IF st.pc = "done" THEN st ELSE FontRun(FontLoopStep(st))

find_font_size_for_height(target_height, font) ==
    FontRun(FontStart(target_height, font)).result

(***************************************************************************)
(* The font-size search applied to one drawn target and font, step by step *)
(***************************************************************************)
MaxTargetH == 150
MaxAsc == 12
MaxDip == 2
SearchFonts == {Font("ttf", a, d, 10) : a \in 7 .. MaxAsc, d \in 0 .. MaxDip}
                 \cup {Font("missing", 10, 0, 10), Font("nobbox", 10, 0, 10)}

FontInit ==
    /\ ff \in {FontStart(t, f) : t \in 0 .. MaxTargetH, f \in SearchFonts}
    /\ cv = Idle
    /\ wf = Idle
    /\ rq = Idle

FontProbe ==
    /\ ff # Idle
    /\ ff.pc = "loop"
    /\ ff.low <= ff.high
    /\ ff' = FontLoopStep(ff)
    /\ UNCHANGED <<cv, wf, rq>>

FontReturn ==
    /\ ff # Idle
    /\ ff.pc = "loop"
    /\ ff.low > ff.high
    /\ ff' = FontLoopStep(ff)
    /\ UNCHANGED <<cv, wf, rq>>

FontNext == FontProbe \/ FontReturn

SpecFont == FontInit /\ [][FontNext]_vars

(***************************************************************************)
(* Text flow: greedy word wrap and shrink-to-fit of the ad copy            *)
(* (generate_ads, pre-pass lines 455-505 and final pass lines 642-692,     *)
(* the same code twice).  A string is a sequence of characters.            *)
(***************************************************************************)
Chars == {"a", " "}
IsSpace(c) == c = " "
\* advance widths in tenths of the font size
Advance(c) == CASE c = "a" -> 5 [] c = "A" -> 7 [] OTHER -> 3

RECURSIVE AdvanceSum(_)
AdvanceSum(line) ==
    IF line = <<>> THEN 0 ELSE Advance(Head(line)) + AdvanceSum(Tail(line))

\* font.getbbox(text) is falsy
HasBBox(font) == font.kind # "nobbox"
\* font.getbbox(text)[2] - font.getbbox(text)[0] at a size
InkWidth(font, size, line) == (AdvanceSum(line) * size * font.wid) \div 100

\* content_item.split()
RECURSIVE SplitFrom(_, _, _)
SplitFrom(content, words, cur) ==
    IF content = <<>> THEN (IF cur = <<>> THEN words ELSE Append(words, cur))
    ELSE IF IsSpace(Head(content))
         THEN SplitFrom(Tail(content),
                        IF cur = <<>> THEN words ELSE Append(words, cur), <<>>)
    ELSE SplitFrom(Tail(content), words, Append(cur, Head(content)))
Split(content) == SplitFrom(content, <<>>, <<>>)

PointSix == FRound(Fl(6, 0, 10, 0))

\* test_l = curr_l + (" " if curr_l else "") + word
TestLine(curr_l, word) == curr_l \o (IF curr_l # <<>> THEN <<" ">> ELSE <<>>) \o word
\* lw <= max_ac_w, lw the ink width or else len(test_l) * size * 0.6
WrapFits(font, size, test_l, max_w) ==
    IF HasBBox(font) THEN InkWidth(font, size, test_l) <= max_w
    ELSE FCmp(FMulInt(PointSix, Len(test_l) * size), FromInt(max_w)) <= 0

\* one pass of `for word in words` over w = [lines, curr_l]
WrapWordDropping(w, word, font, size, max_w) ==
    IF WrapFits(font, size, TestLine(w.curr_l, word), max_w)
    THEN [w EXCEPT !.curr_l = TestLine(w.curr_l, word)]
    ELSE [w EXCEPT !.curr_l = word]
WrapWord(w, word, font, size, max_w) ==
    IF WrapFits(font, size, TestLine(w.curr_l, word), max_w)
    THEN [w EXCEPT !.curr_l = TestLine(w.curr_l, word)]
    ELSE [lines |-> IF w.curr_l # <<>> THEN Append(w.lines, w.curr_l) ELSE w.lines,
          curr_l |-> word]

RECURSIVE WrapWords(_, _, _, _, _)
WrapWords(words, w, font, size, max_w) ==
    IF words = <<>> THEN w
    ELSE WrapWords(Tail(words), WrapWord(w, Head(words), font, size, max_w),
                   font, size, max_w)

\* if curr_l: lines.append(curr_l)
FlushLine(w) == IF w.curr_l # <<>> THEN Append(w.lines, w.curr_l) ELSE w.lines
WordLines(content, font, size, max_w) ==
    FlushLine(WrapWords(Split(content), [lines |-> <<>>, curr_l |-> <<>>],
                        font, size, max_w))

\* int(max_ac_w / (size * 0.6))
TruncateCount(size, max_w) ==
    IF max_w >= 0 THEN FIntDivByFloat(max_w, FMulInt(PointSix, size))
    ELSE -FIntDivByFloat(-max_w, FMulInt(PointSix, size))
\* content_item[:m]
Slice(content, m) ==
    IF m >= 0 THEN SubSeq(content, 1, Min2(m, Len(content)))
    ELSE SubSeq(content, 1, Max2(0, Len(content) + m))
\* if not lines and content_item: lines.append(content_item[:...])
TookFallback(lines, content) == lines = <<>> /\ content # <<>>
WithFallback(lines, content, size, max_w) ==
    IF TookFallback(lines, content)
    THEN <<Slice(content, TruncateCount(size, max_w))>>
    ELSE lines
GreedyWrap(content, font, size, max_w) ==
    WithFallback(WordLines(content, font, size, max_w), content, size, max_w)

\* all_lines_fit_prepass / all_lines_fit_final
FitWidth(font, size, line) == IF HasBBox(font) THEN InkWidth(font, size, line) ELSE 0
FirstLineFits(lines, font, size, target_w) ==
    lines = <<>> \/ FitWidth(font, size, lines[1]) <= target_w
AllLinesFit(lines, font, size, target_w) ==
    \A i \in 1 .. Len(lines) : FitWidth(font, size, lines[i]) <= target_w

\* the copy fitting: locals after the first wrap at the size the probe chose
FitStart(content, font, ac_font_sz, max_w) ==
    [pc |-> "fit", content |-> content, font |-> font, max_w |-> max_w,
     start |-> ac_font_sz, ac_font_sz |-> ac_font_sz, cur |-> ac_font_sz,
     lines |-> GreedyWrap(content, font, ac_font_sz, max_w),
     temp |-> GreedyWrap(content, font, ac_font_sz, max_w),
     truncated |-> TookFallback(WordLines(content, font, ac_font_sz, max_w), content),
     iters |-> 0]

\* if current != ac_font_sz: wrap again from scratch at the current size
Rewrap(st) ==
    IF st.cur # st.ac_font_sz
    THEN [st EXCEPT !.temp = GreedyWrap(st.content, st.font, st.cur, st.max_w),
                    !.truncated = @ \/ TookFallback(WordLines(st.content, st.font,
                                                              st.cur, st.max_w),
                                                    st.content)]
    ELSE st
\* if all_lines_fit(...): take the wrap and break; else size -= 1
FitCheck(st) ==
    IF AllLinesFit(st.temp, st.font, st.cur, st.max_w)
    THEN [st EXCEPT !.lines = st.temp, !.ac_font_sz = st.cur, !.pc = "done"]
    ELSE [st EXCEPT !.cur = @ - 1, !.iters = @ + 1]
\* one evaluation of `while current > 10: ... else: ...`
FitLoopStep(st) ==
    IF st.cur > MinSize THEN FitCheck(Rewrap(st))
    ELSE [st EXCEPT !.lines = st.temp, !.ac_font_sz = st.cur, !.pc = "done"]

RECURSIVE FitRun(_)
FitRun(st) == IF st.pc = "done" THEN st ELSE FitRun(FitLoopStep(st))

(***************************************************************************)
(* The copy fitting applied to one drawn text, font, width and start size  *)
(***************************************************************************)
MaxTextLen == 6
MaxStartSize == 13
MaxWrapW == 30
\* every text up to MaxTextLen characters, and two short words before one
\* that is too wide
Texts ==
    UNION {[1 .. n -> Chars] : n \in 0 .. MaxTextLen}
        \cup {<<"a", " ", "a", " ", "a", "a", "a">>}
WrapFonts == {Font("ttf", 10, 0, 10), Font("nobbox", 10, 0, 10)}

WrapInit ==
    /\ wf \in {[pc |-> "wrap", content |-> c, font |-> f, max_w |-> w, start |-> s] :
                 c \in Texts, f \in WrapFonts, w \in 0 .. MaxWrapW,
                 s \in MinSize .. MaxStartSize}
    /\ cv = Idle
    /\ ff = Idle
    /\ rq = Idle

WrapFirst ==
    /\ wf # Idle
    /\ wf.pc = "wrap"
    /\ wf' = FitStart(wf.content, wf.font, wf.start, wf.max_w)
    /\ UNCHANGED <<cv, ff, rq>>

FitAccept ==
    /\ wf # Idle
    /\ wf.pc = "fit"
    /\ wf.cur > MinSize
    /\ FitLoopStep(wf).pc = "done"
    /\ wf' = FitLoopStep(wf)
    /\ UNCHANGED <<cv, ff, rq>>

FitShrink ==
    /\ wf # Idle
    /\ wf.pc = "fit"
    /\ wf.cur > MinSize
    /\ FitLoopStep(wf).pc = "fit"
    /\ wf' = FitLoopStep(wf)
    /\ UNCHANGED <<cv, ff, rq>>

FitGiveUp ==
    /\ wf # Idle
    /\ wf.pc = "fit"
    /\ wf.cur <= MinSize
    /\ wf' = FitLoopStep(wf)
    /\ UNCHANGED <<cv, ff, rq>>

WrapNext == WrapFirst \/ FitAccept \/ FitShrink \/ FitGiveUp

SpecWrap == WrapInit /\ [][WrapNext]_vars

(***************************************************************************)
(* Layout planner: generate_ads, one pass of `for fmt_item in req.formats` *)
(*                                                                         *)
(* The pass works on a context c: the decoded request (req, src, logo,     *)
(* hero_bbox), the format fmt, the function's locals left by the previous  *)
(* pass (locals) and the order in which this process iterates a set of     *)
(* strings (seed).  Each stage adds the locals it assigns.                 *)
(***************************************************************************)
\* a decimal literal num/den of the source, as the double Python reads
RECURSIVE Gcd(_, _)
Gcd(a, b) == IF b = 0 THEN a ELSE Gcd(b, a % b)
Literal(num, den) == FRound(Fl(num \div Gcd(num, den), 0, den \div Gcd(num, den), 0))
\* int(n * literal) for an int n
IntTimes(n, num, den) == FInt(FMulInt(Literal(num, den), n))

\* the largest k in lo .. hi with k * k <= n
RECURSIVE IsqrtSearch(_, _, _)
IsqrtSearch(n, lo, hi) ==
    IF lo = hi THEN lo
    ELSE IF ((lo + hi + 1) \div 2) * ((lo + hi + 1) \div 2) <= n
         THEN IsqrtSearch(n, (lo + hi + 1) \div 2, hi)
    ELSE IsqrtSearch(n, lo, (lo + hi + 1) \div 2 - 1)
Isqrt(n) == IsqrtSearch(n, 0, 46340)

\* int(x ** 0.5) for a double x >= 0, the power correctly rounded.  Only a
\* double just below a perfect square k * k can have its root rounded up to k:
\* the root lies about k * t / 2 below k for x = k * k * (1 - t).
SqrtRoundsUp(k, x, a) ==
    IF a >= x.e THEN k * (-x.s) * Pow2(a - x.e) < 2 * x.p
    ELSE k * (-x.s) < 2 * x.p * Pow2(x.e - a)
IntSqrtAt(x, k) ==
    IF /\ k > 0
       /\ x.s < 0
       /\ x.p = k * k * x.d
       /\ ~SqrtRoundsUp(k, x, HalfUlpShift(k, Log2Floor(k, 1)))
    THEN k - 1 ELSE k
IntSqrt(x) == IntSqrtAt(x, Isqrt(x.p \div x.d))

\* x / y for doubles, y being exactly the ratio y.p / y.d
FDivRatio(x, num, den) == FRound(Fl(x.p * den, x.s * den, x.d * num, x.e))
FDivExact(x, y) == FDivRatio(x, y.p \div Gcd(y.p, y.d), y.d \div Gcd(y.p, y.d))

Elems == <<"logo", "copy", "cta">>
Fmt(id, w, h) == [id |-> id, width |-> w, height |-> h]
Orientation(tw, th) ==
    IF tw = th THEN "square" ELSE IF th > tw THEN "portrait" ELSE "landscape"
IsSpecialFmt(tw, th) == <<tw, th>> \in {<<300, 250>>, <<336, 280>>}

\* sx, sy, sw, sh
SafeAreaEitherWay(tw, th) ==
    IF {tw, th} = {1440, 2560}
    THEN [sx |-> 127, sy |-> 254, sw |-> 1182, sh |-> 2072]
    ELSE [sx |-> IntTimes(tw, 7, 100), sy |-> IntTimes(th, 7, 100),
          sw |-> tw - 2 * IntTimes(tw, 7, 100),
          sh |-> th - 2 * IntTimes(th, 7, 100)]
SafeArea(tw, th) ==
    IF tw = 1440 /\ th = 2560
    THEN [sx |-> FInt(Literal(12734, 100)), sy |-> FInt(Literal(25456, 100)),
          sw |-> FInt(Literal(11821, 10)), sh |-> FInt(Literal(207243, 100))]
    ELSE [sx |-> IntTimes(tw, 7, 100), sy |-> IntTimes(th, 7, 100),
          sw |-> tw - 2 * IntTimes(tw, 7, 100),
          sh |-> th - 2 * IntTimes(th, 7, 100)]

\* an absent image or text: None
None == <<>>
\* a data URL whose payload is not an image
BadData == <<-1>>
\* show_logo_for_format, show_copy_for_format, show_cta_for_format
Shows(req, logo, fid) ==
    [logo |-> /\ req.includeLogo
              /\ logo # None
              /\ (req.logoAppliesToAll \/ fid \in req.logoSelectedFormats),
     copy |-> /\ req.includeCopy
              /\ req.adCopy # None
              /\ (req.copyAppliesToAll \/ fid \in req.copySelectedFormats),
     cta |-> /\ req.includeCta
             /\ req.ctaText # None
             /\ (req.ctaAppliesToAll \/ fid \in req.ctaSelectedFormats)]

\* dict.get(orientation, default)
GetPos(d, orientation, default) ==
    IF orientation \in DOMAIN d THEN d[orientation] ELSE default
Resolved(key) == IF key = "let_ai_choose" THEN "bottom_center" ELSE key
\* logo_pos_key, copy_pos_key, cta_pos_key
PosKeys(req, orientation) ==
    [logo |-> GetPos(req.logoPositionByOrientation, orientation, "top_center"),
     copy |-> Resolved(GetPos(req.copyPositionByOrientation, orientation,
                              "bottom_center")),
     cta |-> Resolved(GetPos(req.ctaPositionByOrientation, orientation,
                             "bottom_center"))]

\* the words of a position key the code looks for with `in`
KeyTokens(key) ==
    CASE key = "top_left" -> {"top", "left"}
      [] key = "top_center" -> {"top", "center"}
      [] key = "top_right" -> {"top", "right"}
      [] key = "left_middle" -> {"left", "middle"}
      [] key = "center_middle" -> {"center", "middle"}
      [] key = "right_middle" -> {"right", "middle"}
      [] key = "bottom_left" -> {"bottom", "left"}
      [] key = "bottom_center" -> {"bottom", "center"}
      [] key = "bottom_right" -> {"bottom", "right"}
      [] key \in {"top", "bottom", "left", "right", "center", "middle"} -> {key}
      [] OTHER -> {}
KeyHas(token, key) == token \in KeyTokens(key)

\* pct: 0.0215 square or special, 0.02 portrait, 0.035 landscape
LogoPct(tw, th) ==
    IF tw = th \/ IsSpecialFmt(tw, th) THEN Literal(215, 10000)
    ELSE IF th > tw THEN Literal(2, 100)
    ELSE Literal(35, 1000)
\* aspect = orig_w / orig_h if orig_h > 0 else 1
Aspect(logo) == IF logo[2] > 0 THEN FDivInts(logo[1], logo[2]) ELSE FromInt(1)
\* int((logo_area / aspect) ** 0.5) if aspect > 0 else 0
LogoHeightCalc(logo_area, aspect) ==
    IF FCmp(aspect, FromInt(0)) > 0 THEN IntSqrt(FDivExact(logo_area, aspect)) ELSE 0
\* logo_w = min(int(logo_h * aspect), safe_w), logo_h = min(logo_h, safe_h)
LogoBox(logo_h, aspect, sw, sh) ==
    [w |-> Min2(FInt(FMulInt(aspect, logo_h)), sw), h |-> Min2(logo_h, sh)]
LogoSize(logo, tw, th, sw, sh) ==
    LogoBox(LogoHeightCalc(FMulInt(LogoPct(tw, th), sw * sh), Aspect(logo)),
            Aspect(logo), sw, sh)

RefLongerSide(box, ref) ==
    IF box.w > 0 /\ box.h > 0 THEN Max2(box.w, box.h) ELSE ref
\* format_level_logo_short_side_ref
RefFromLogo(box, ref) == IF box.w > 0 /\ box.h > 0 THEN Min2(box.w, box.h) ELSE ref
RefFromArea(c) == IntSqrt(FMulInt(Literal(2, 100), c.sh * c.sw))
RefCarried(c) ==
    IF c.show.logo
    THEN RefFromLogo(LogoSize(c.logo, c.fmt.width, c.fmt.height, c.sw, c.sh),
                     RefFromArea(c))
    ELSE IF c.locals.lss_ref > 0 THEN c.locals.lss_ref
    ELSE RefFromArea(c)
ReferenceScale(c) ==
    IF c.show.logo
    THEN RefFromLogo(LogoSize(c.logo, c.fmt.width, c.fmt.height, c.sw, c.sh),
                     RefFromArea(c))
    ELSE RefFromArea(c)

\* get_font_path, and the face ImageFont.truetype(path, size) loads from it
FontMap ==
    {"arial.ttf", "helvetica.ttf", "verdana.ttf", "georgia.ttf", "times.ttf",
     "cour.ttf", "Inter-Regular.ttf", "Roboto-Regular.ttf", "OpenSans-Regular.ttf",
     "Lato-Regular.ttf", "Montserrat-Regular.ttf", "Poppins-Regular.ttf",
     "Nunito-Regular.ttf"}
DefaultFontPath == "arial.ttf"
get_font_path(font_filename, installed) ==
    IF font_filename = "" THEN DefaultFontPath
    ELSE IF font_filename \notin FontMap THEN DefaultFontPath
    ELSE IF font_filename \notin installed THEN DefaultFontPath
    ELSE font_filename
FontFace(path, installed) ==
    IF path \notin installed THEN Font("missing", 10, 0, 10)
    ELSE IF path = "Inter-Regular.ttf" THEN Font("ttf", 11, 1, 11)
    ELSE IF path = "cour.ttf" THEN Font("nobbox", 10, 0, 10)
    ELSE Font("ttf", 9, 0, 10)

\* lines 350-396: the locals every later stage reads
WithSafeArea(c) ==
    c @@ SafeArea(c.fmt.width, c.fmt.height)
      @@ [orientation |-> Orientation(c.fmt.width, c.fmt.height),
          show |-> Shows(c.req, c.logo, c.fmt.id),
          key |-> PosKeys(c.req, Orientation(c.fmt.width, c.fmt.height))]
WithRef(c) == c @@ [lss_ref |-> ReferenceScale(c)]
FormatSetup(c) == WithRef(WithSafeArea(c))

(***************************************************************************)
(* Element sizer: the width and height of the logo, the copy block and the *)
(* CTA button (pre-pass lines 414-527, final pass lines 606-732)           *)
(***************************************************************************)
Raised == [raised |-> TRUE]

LogoDetail(box) ==
    [name |-> "logo", raised |-> FALSE, width |-> box.w, height |-> box.h]
LogoBlock(c) == LogoDetail(LogoSize(c.logo, c.fmt.width, c.fmt.height, c.sw, c.sh))

\* max_ac_w
CopyMaxWidth(sw, key) ==
    Max2(IntTimes(sw, 30, 100),
         Min2(IF KeyHas("left", key) \/ KeyHas("right", key)
              THEN IntTimes(sw, 40, 100) ELSE IntTimes(sw, 80, 100),
              sw - 4))
RECURSIVE MaxLineWidth(_, _, _)
MaxLineWidth(lines, font, size) ==
    IF lines = <<>> THEN 0
    ELSE Max2(FitWidth(font, size, Head(lines)), MaxLineWidth(Tail(lines), font, size))
\* el_h = len(lines) * (line_h + line_sp) - (line_sp if line_sp > 0 and lines)
CopyHeight(n, line_h, line_sp) ==
    Max2(0, n * (line_h + line_sp) - (IF line_sp > 0 /\ n > 0 THEN line_sp ELSE 0))
CopyDetail(st, line_h, line_sp, sw) ==
    [name |-> "copy", raised |-> FALSE, lines |-> st.lines, font |-> st.font,
     size |-> st.ac_font_sz, line_height_approx |-> line_h, line_spacing |-> line_sp,
     height |-> CopyHeight(Len(st.lines), line_h, line_sp),
     width |-> Min2(MaxLineWidth(st.lines, st.font, st.ac_font_sz), sw)]
CopyMeasured(st, line_h, sw) == CopyDetail(st, line_h, IntTimes(line_h, 2, 10), sw)
CopyFitted(st, sw) == CopyMeasured(st, HeightAt(st.font, st.ac_font_sz), sw)
CopyAtSize(c, key, ac_font_sz) ==
    CHOOSE d \in {CopyFitted(st, c.sw) :
                    st \in {FitRun(FitStart(c.req.adCopy, c.copy_font, ac_font_sz,
                                            CopyMaxWidth(c.sw, key)))}} : TRUE
\* ac_target_h = int(lss_ref * 1.25)
CopyTargetHeight(lss_ref) == IntTimes(lss_ref, 125, 100)
CopyBlock(c, key) ==
    IF c.copy_font.kind = "missing" THEN Raised
    ELSE CHOOSE d \in {CopyAtSize(c, key, ac_font_sz) :
                         ac_font_sz \in {find_font_size_for_height(
                                             CopyTargetHeight(c.lss_ref),
                                             c.copy_font)}} : TRUE

\* content_item.upper()
Upper(text) == [i \in 1 .. Len(text) |-> IF text[i] = "a" THEN "A" ELSE text[i]]
\* bbox[3] - bbox[1] and bbox[1] of font.getbbox(text)
TextHeight(font, size, text) ==
    IF ~HasBBox(font) THEN size ELSE IF text = <<>> THEN 0 ELSE HeightAt(font, size)
TextTop(font, size, text) ==
    IF ~HasBBox(font) \/ text = <<>> THEN 0 ELSE size \div 5
CtaFontSizeRounded(el_h) == Max2(10, Min2((6 * el_h + 5) \div 10, 80))
\* cta_fnt_sz = max(10, min(int(el_h * 0.6), 80))
CtaFontSize(el_h) == Max2(10, Min2(IntTimes(el_h, 6, 10), 80))
CtaDetail(font, size, text, el_h, sw) ==
    [name |-> "cta", raised |-> FALSE, font |-> font, size |-> size,
     content |-> text, height |-> el_h,
     width |-> Min2(FitWidth(font, size, text) + 2 * size, sw),
     text_offset_x |-> size,
     text_offset_y |-> ((el_h - TextHeight(font, size, text)) \div 2)
                          - TextTop(font, size, text)]
CtaBlock(c) ==
    IF c.cta_font.kind = "missing" THEN Raised
    ELSE CtaDetail(c.cta_font, CtaFontSize(c.lss_ref), Upper(c.req.ctaText),
                   c.lss_ref, c.sw)

\* pre-pass, lines 517-527: el_w, el_h of the CTA button
CtaPrepassExtent(font, size, text, el_h, sw) ==
    [name |-> "cta", raised |-> FALSE, height |-> el_h,
     width |-> Min2(FitWidth(font, size, text) + 2 * size, sw)]
CtaPrepass(c) ==
    IF c.cta_font.kind = "missing" THEN Raised
    ELSE CtaPrepassExtent(c.cta_font, CtaFontSize(c.lss_ref), Upper(c.req.ctaText),
                          c.lss_ref, c.sw)

ElementBlock(c, name, key) ==
    CASE name = "logo" -> LogoBlock(c)
      [] name = "copy" -> CopyBlock(c, key)
      [] OTHER -> CtaBlock(c)

(***************************************************************************)
(* Groups: the elements shown, grouped by position key in dict order       *)
(***************************************************************************)
ShownElems(c) == SelectSeq(Elems, LAMBDA n : c.show[n])
RECURSIVE FirstKeys(_, _, _)
FirstKeys(c, names, keys) ==
    IF names = <<>> THEN keys
    ELSE FirstKeys(c, Tail(names),
                   IF \E i \in 1 .. Len(keys) : keys[i] = c.key[Head(names)]
                   THEN keys ELSE Append(keys, c.key[Head(names)]))
Reverse(s) == [i \in 1 .. Len(s) |-> s[Len(s) + 1 - i]]
\* for pos_key_item, group_content in pos_groups.items()
GroupKeysBySeed(c) ==
    IF c.seed = 0 THEN FirstKeys(c, ShownElems(c), <<>>)
    ELSE Reverse(FirstKeys(c, ShownElems(c), <<>>))
GroupKeys(c) == FirstKeys(c, ShownElems(c), <<>>)
Members(c, key) == SelectSeq(ShownElems(c), LAMBDA n : c.key[n] = key)
\* the blocks of a group's members, in member order
GroupBlocks(c, key) ==
    [i \in 1 .. Len(Members(c, key)) |-> ElementBlock(c, Members(c, key)[i], key)]
\* the blocks of a group's members as the pre-pass measures them
PrepassBlock(c, name, key) ==
    CASE name = "logo" -> LogoBlock(c)
      [] name = "copy" -> CopyBlock(c, key)
      [] OTHER -> CtaPrepass(c)
PrepassBlocks(c, key) ==
    [i \in 1 .. Len(Members(c, key)) |-> PrepassBlock(c, Members(c, key)[i], key)]
AnyRaised(blocks) == \E i \in 1 .. Len(blocks) : blocks[i].raised

(***************************************************************************)
(* Pre-pass: the space the groups take from each edge, and the hero area   *)
(***************************************************************************)
\* pre_pass_element_spacing, general_element_spacing
ElementSpacing(c) == Max2(3, IntTimes(Min2(c.sw, c.sh), 2, 100))
RECURSIVE BlocksMaxW(_)
BlocksMaxW(blocks) ==
    IF blocks = <<>> THEN 0 ELSE Max2(Head(blocks).width, BlocksMaxW(Tail(blocks)))
RECURSIVE BlocksSumH(_)
BlocksSumH(blocks) ==
    IF blocks = <<>> THEN 0 ELSE Head(blocks).height + BlocksSumH(Tail(blocks))
\* (current_group_max_w, current_group_total_h)
GroupExtent(blocks, spacing) ==
    <<BlocksMaxW(blocks), BlocksSumH(blocks) + spacing * (Len(blocks) - 1)>>

\* get_edges_for_pos_key, and the order `for edge in occupied_edges` visits
get_edges_for_pos_key(pos_key) ==
    KeyTokens(pos_key) \cap {"top", "bottom", "left", "right"}
EdgeOrder(edges, seed) ==
    IF seed = 0
    THEN SelectSeq(<<"top", "bottom", "left", "right">>, LAMBDA e : e \in edges)
    ELSE SelectSeq(<<"right", "left", "bottom", "top">>, LAMBDA e : e \in edges)
RECURSIVE AppendToEdges(_, _, _)
AppendToEdges(edge_blocks, order, extent) ==
    IF order = <<>> THEN edge_blocks
    ELSE AppendToEdges([edge_blocks EXCEPT ![Head(order)] = Append(@, extent)],
                       Tail(order), extent)
NoEdgeBlocks == [top |-> <<>>, bottom |-> <<>>, left |-> <<>>, right |-> <<>>]
\* a group as the pre-pass measured it: its members' el_w, el_h and
\* (current_group_max_w, current_group_total_h)
Footprint(g, spacing) ==
    [key |-> g.key,
     members |-> [i \in 1 .. Len(g.blocks) |->
                     [name |-> g.blocks[i].name, w |-> g.blocks[i].width,
                      h |-> g.blocks[i].height]],
     extent |-> GroupExtent(g.blocks, spacing)]
RECURSIVE EdgeBlocks(_, _, _)
EdgeBlocks(footprints, seed, edge_blocks) ==
    IF footprints = <<>> THEN edge_blocks
    ELSE EdgeBlocks(Tail(footprints), seed,
                    AppendToEdges(edge_blocks,
                                  EdgeOrder(get_edges_for_pos_key(Head(footprints).key),
                                            seed),
                                  Head(footprints).extent))
RECURSIVE SumOf(_, _)
SumOf(extents, k) ==
    IF extents = <<>> THEN 0 ELSE Head(extents)[k] + SumOf(Tail(extents), k)
OccupiedGapPerBlock(extents, k, spacing) == SumOf(extents, k) + spacing * Len(extents)
\* occupied_top, occupied_bottom (heights), occupied_left, occupied_right (widths)
Occupied(extents, k, spacing) ==
    SumOf(extents, k) + (IF extents # <<>> THEN spacing ELSE 0)
OccupiedEdges(eb, sp) ==
    [top |-> Occupied(eb.top, 2, sp), bottom |-> Occupied(eb.bottom, 2, sp),
     left |-> Occupied(eb.left, 1, sp), right |-> Occupied(eb.right, 1, sp)]
\* hero_area_x, hero_area_y, hero_area_w, hero_area_h
HeroArea(c, occupied) ==
    [hero_area_x |-> c.sx + occupied.left,
     hero_area_y |-> c.sy + occupied.top,
     hero_area_w |-> Max2(1, c.sw - occupied.left - occupied.right),
     hero_area_h |-> Max2(1, c.sh - occupied.top - occupied.bottom)]
\* the members of every group, measured
Measure(c) ==
    [i \in 1 .. Len(GroupKeys(c)) |->
        [key |-> GroupKeys(c)[i], blocks |-> PrepassBlocks(c, GroupKeys(c)[i])]]
PrepassRaised(measured) ==
    \E i \in 1 .. Len(measured) : AnyRaised(measured[i].blocks)
Reserved(c, footprints, occupied) ==
    c @@ HeroArea(c, occupied)
      @@ [raised |-> FALSE, footprints |-> footprints, occupied |-> occupied]
ReserveEdges(c, footprints) ==
    Reserved(c, footprints,
             OccupiedEdges(EdgeBlocks(footprints, c.seed, NoEdgeBlocks),
                           ElementSpacing(c)))
Reserve(c, measured) ==
    IF PrepassRaised(measured) THEN c @@ [raised |-> TRUE]
    ELSE CHOOSE r \in {ReserveEdges(c, footprints) :
                          footprints \in {[i \in 1 .. Len(measured) |->
                                              Footprint(measured[i], ElementSpacing(c))]}} :
             TRUE
Prepass(c) == CHOOSE r \in {Reserve(c, measured) : measured \in {Measure(c)}} : TRUE

\* canvas = create_base_canvas_with_hero(src_pil, tw, th, hero_bbox, hero_area...)
WithCanvas(c) ==
    IF c.raised THEN c
    ELSE c @@ [canvas |-> create_base_canvas_with_hero(
                              c.src[1], c.src[2], c.fmt.width, c.fmt.height,
                              c.hero_bbox, c.hero_area_x, c.hero_area_y,
                              c.hero_area_w, c.hero_area_h)]

(***************************************************************************)
(* Final pass: stacking order, block extent, position and drawing of each  *)
(* group (lines 557-812)                                                   *)
(***************************************************************************)
Has(names, n) == \E i \in 1 .. Len(names) : names[i] = n
DefaultOrder(names) == SelectSeq(Elems, LAMBDA n : Has(names, n))
\* if has_copy: copy, then cta or else logo; elif has_cta: cta, then logo;
\* elif has_logo: logo
PriorityOrder(names) ==
    IF Has(names, "copy")
    THEN <<"copy">> \o (IF Has(names, "cta") THEN <<"cta">>
                        ELSE IF Has(names, "logo") THEN <<"logo">> ELSE <<>>)
    ELSE IF Has(names, "cta")
         THEN <<"cta">> \o (IF Has(names, "logo") THEN <<"logo">> ELSE <<>>)
    ELSE IF Has(names, "logo") THEN <<"logo">> ELSE <<>>
PriorityWheneverBottomCenter(pos_key, names) ==
    IF pos_key = "bottom_center" THEN PriorityOrder(names) ELSE DefaultOrder(names)
\* stacking_order
StackingOrder(pos_key, names) ==
    IF pos_key = "bottom_center" /\ Len(names) = 2 THEN PriorityOrder(names)
    ELSE DefaultOrder(names)

\* stacking_order.index(name) if name in stacking_order else 99
StackIndex(order, name) ==
    IF Has(order, name) THEN (CHOOSE i \in 1 .. Len(order) : order[i] = name) - 1
    ELSE 99
\* sorted(el_render_details, key=...): stable
RECURSIVE InsertByIndex(_, _, _)
InsertByIndex(sorted, d, order) ==
    IF sorted = <<>> THEN <<d>>
    ELSE IF StackIndex(order, Head(sorted).name) <= StackIndex(order, d.name)
         THEN <<Head(sorted)>> \o InsertByIndex(Tail(sorted), d, order)
    ELSE <<d>> \o sorted
RECURSIVE SortByStacking(_, _, _)
SortByStacking(details, order, acc) ==
    IF details = <<>> THEN acc
    ELSE SortByStacking(Tail(details), order, InsertByIndex(acc, Head(details), order))

\* logo_spacing, copy_cta_spacing
LogoSpacing(c) ==
    Max2(3, IF c.fmt.height > c.fmt.width THEN IntTimes(c.sh, 5, 100)
            ELSE IntTimes(c.sh, 6, 100))
CopyCtaSpacing(c) ==
    Max2(3, IF c.fmt.height > c.fmt.width THEN IntTimes(c.sh, 2, 100)
            ELSE IF c.fmt.width = c.fmt.height
                    \/ IsSpecialFmt(c.fmt.width, c.fmt.height)
                 THEN IntTimes(c.sh, 3, 100)
            ELSE IntTimes(c.sh, 5, 100))
GapAlwaysGeneric(c, curr_type, next_type) == ElementSpacing(c)
\* the spacing between an element and the next one of the stack
GapBetween(c, curr_type, next_type) ==
    IF \/ curr_type = "logo" /\ next_type \in {"copy", "cta"}
       \/ next_type = "logo" /\ curr_type \in {"copy", "cta"}
    THEN LogoSpacing(c)
    ELSE IF \/ curr_type = "copy" /\ next_type = "cta"
            \/ curr_type = "cta" /\ next_type = "copy"
         THEN CopyCtaSpacing(c)
    ELSE ElementSpacing(c)
\* stacked_block_total_h
RECURSIVE StackedHeight(_, _)
StackedHeight(c, sorted) ==
    IF sorted = <<>> THEN 0
    ELSE IF Len(sorted) = 1 THEN sorted[1].height
    ELSE sorted[1].height + GapBetween(c, sorted[1].name, sorted[2].name)
             + StackedHeight(c, Tail(sorted))

AnchorCentreTruncates(pos_key, el_w, el_h, zone_x, zone_y, zone_w, zone_h) ==
    <<IF KeyHas("left", pos_key) THEN zone_x
      ELSE IF KeyHas("right", pos_key) THEN zone_x + zone_w - el_w
      ELSE IF KeyHas("center", pos_key)
           THEN zone_x + (IF zone_w >= el_w THEN (zone_w - el_w) \div 2
                          ELSE -((el_w - zone_w) \div 2))
      ELSE zone_x,
      IF KeyHas("top", pos_key) THEN zone_y
      ELSE IF KeyHas("bottom", pos_key) THEN zone_y + zone_h - el_h
      ELSE IF KeyHas("middle", pos_key) THEN zone_y + (zone_h - el_h) \div 2
      ELSE zone_y>>
get_element_position(pos_key, el_w, el_h, zone_x, zone_y, zone_w, zone_h) ==
    <<IF KeyHas("left", pos_key) THEN zone_x
      ELSE IF KeyHas("right", pos_key) THEN zone_x + zone_w - el_w
      ELSE IF KeyHas("center", pos_key) THEN zone_x + (zone_w - el_w) \div 2
      ELSE zone_x,
      IF KeyHas("top", pos_key) THEN zone_y
      ELSE IF KeyHas("bottom", pos_key) THEN zone_y + zone_h - el_h
      ELSE IF KeyHas("middle", pos_key) THEN zone_y + (zone_h - el_h) \div 2
      ELSE zone_y>>

\* px and current_y_offset of every element of the stack
RECURSIVE Place(_, _, _, _, _)
Place(c, sorted, gx, y, max_w) ==
    IF sorted = <<>> THEN <<>>
    ELSE <<sorted[1] @@ [x |-> gx + (max_w - sorted[1].width) \div 2, y |-> y]>>
         \o (IF Len(sorted) = 1 THEN <<>>
             ELSE Place(c, Tail(sorted), gx,
                        y + sorted[1].height
                          + GapBetween(c, sorted[1].name, sorted[2].name),
                        max_w))
PlaceAt(c, sorted, pos, max_w) == Place(c, sorted, pos[1], pos[2], max_w)
PlaceGroup(c, key, sorted) ==
    PlaceAt(c, sorted,
            get_element_position(key, BlocksMaxW(sorted), StackedHeight(c, sorted),
                                 c.sx, c.sy, c.sw, c.sh),
            BlocksMaxW(sorted))

\* the drawing calls of one placed element
Op(op, el, x, y, w, h, text, size) ==
    [op |-> op, el |-> el, x |-> x, y |-> y, w |-> w, h |-> h,
     text |-> text, size |-> size]
\* draw_line_x
LineX(d, line_w) == IF line_w < d.width THEN d.x + (d.width - line_w) \div 2 ELSE d.x
CopyOps(d) ==
    [i \in 1 .. Len(d.lines) |->
        Op("text", "copy", LineX(d, FitWidth(d.font, d.size, d.lines[i])),
           d.y + (i - 1) * (d.line_height_approx + d.line_spacing),
           0, 0, d.lines[i], d.size)]
DrawOps(d) ==
    CASE d.name = "logo" -> <<Op("paste", "logo", d.x, d.y, d.width, d.height, <<>>, 0)>>
      [] d.name = "copy" -> CopyOps(d)
      [] OTHER -> <<Op("rectangle", "cta", d.x, d.y, d.width, d.height, <<>>, 0),
                    Op("text", "cta", d.x + d.text_offset_x, d.y + d.text_offset_y,
                       0, 0, d.content, d.size)>>
\* logo.resize((el_w, el_h)) raises for an empty size
DrawRaises(d) == d.name = "logo" /\ (d.width <= 0 \/ d.height <= 0)
RECURSIVE GroupOps(_)
GroupOps(placed) ==
    IF placed = <<>> THEN <<>> ELSE DrawOps(Head(placed)) \o GroupOps(Tail(placed))

\* gx, gy, stacked_block_max_w, stacked_block_total_h
BlockAt(pos, max_w, total_h) == [x |-> pos[1], y |-> pos[2], w |-> max_w, h |-> total_h]
BlockOf(c, key, sorted) ==
    BlockAt(get_element_position(key, BlocksMaxW(sorted), StackedHeight(c, sorted),
                                 c.sx, c.sy, c.sw, c.sh),
            BlocksMaxW(sorted), StackedHeight(c, sorted))
Drawn(key, names, placed, block) ==
    [key |-> key, members |-> names, block |-> block,
     placed |-> [i \in 1 .. Len(placed) |->
                    [name |-> placed[i].name, x |-> placed[i].x, y |-> placed[i].y,
                     w |-> placed[i].width, h |-> placed[i].height]],
     ops |-> GroupOps(placed),
     raised |-> \E i \in 1 .. Len(placed) : DrawRaises(placed[i])]
DrawnSorted(c, key, sorted) ==
    Drawn(key, Members(c, key), PlaceGroup(c, key, sorted), BlockOf(c, key, sorted))
FinalGroup(c, key) ==
    CHOOSE g \in {DrawnSorted(c, key, sorted) :
                     sorted \in {SortByStacking(GroupBlocks(c, key),
                                                StackingOrder(key, Members(c, key)),
                                                <<>>)}} : TRUE

RECURSIVE AllOps(_)
AllOps(groups) ==
    IF groups = <<>> THEN <<>> ELSE Head(groups).ops \o AllOps(Tail(groups))
\* what one pass of the format loop leaves: the canvas with its drawing
\* calls, or an exception
Failed(c) == [raised |-> TRUE, fid |-> c.fmt.id, lss_ref |-> c.lss_ref]
Finished(c, groups) ==
    IF \E i \in 1 .. Len(groups) : groups[i].raised THEN Failed(c)
    ELSE [raised |-> FALSE, fid |-> c.fmt.id, fmt |-> c.fmt, lss_ref |-> c.lss_ref,
          hero_area |-> <<c.hero_area_x, c.hero_area_y, c.hero_area_w, c.hero_area_h>>,
          safe |-> [sx |-> c.sx, sy |-> c.sy, sw |-> c.sw, sh |-> c.sh],
          footprints |-> c.footprints, occupied |-> c.occupied,
          ac_target_h |-> CopyTargetHeight(c.lss_ref),
          canvas |-> c.canvas,
          groups |-> [i \in 1 .. Len(groups) |->
                         [key |-> groups[i].key, members |-> groups[i].members,
                          block |-> groups[i].block, placed |-> groups[i].placed]],
          ops |-> AllOps(groups)]
FinalPass(c) ==
    IF c.raised THEN Failed(c)
    ELSE Finished(c, [i \in 1 .. Len(GroupKeys(c)) |-> FinalGroup(c, GroupKeys(c)[i])])
\* the stages in turn, each on the finished locals of the one before
PlanFormat(c) ==
    CHOOSE plan \in
        {FinalPass(painted) :
            painted \in {WithCanvas(measured) :
                            measured \in {Prepass(ready) :
                                             ready \in {FormatSetup(c)}}}} : TRUE

(***************************************************************************)
(* The /generate endpoint.  The handler is an async function that never    *)
(* awaits, so requests are served one after another; rq holds two requests *)
(* with the same content, each with its own format list and its own        *)
(* process-wide iteration order of string sets (seed).                     *)
(***************************************************************************)
(***************************************************************************)
(* get_hero_bbox_from_input_or_sam.  The segmentation model is the         *)
(* environment: whether the predictor was loaded (available), what         *)
(* predictor.predict does for a box (raises, an empty mask, a mask with    *)
(* the given extent) and what the automatic mask generator does (raises,   *)
(* no masks, masks of which the largest has the given bbox).  A user box   *)
(* is a dict, here a function on the keys it has.                          *)
(***************************************************************************)
HeroRaised == [raised |-> TRUE, bbox |-> NoBBox]
HeroFound(bbox) == [raised |-> FALSE, bbox |-> bbox]
\* if predictor and SamAutomaticMaskGenerator: ... return (x, y, x + w, y + h)
AutoHero(locator) ==
    IF locator.available /\ locator.auto.kind = "masks"
    THEN HeroFound(<<locator.auto.bbox[1], locator.auto.bbox[2],
                     locator.auto.bbox[1] + locator.auto.bbox[3],
                     locator.auto.bbox[2] + locator.auto.bbox[4]>>)
    ELSE HeroFound(NoBBox)
\* the clipped user box x1 < x2, y1 < y2 handed to predictor.predict
PromptedHero(x1, y1, x2, y2, locator) ==
    IF x1 >= x2 \/ y1 >= y2 THEN AutoHero(locator)
    ELSE IF locator.predict.kind = "mask" THEN HeroFound(locator.predict.box)
    ELSE AutoHero(locator)
get_hero_bbox_from_input_or_sam(size, user_bbox_xywh, locator) ==
    IF DOMAIN user_bbox_xywh # {} /\ locator.available
    THEN IF ~({"x", "y", "width", "height"} \subseteq DOMAIN user_bbox_xywh)
         THEN HeroRaised
         ELSE PromptedHero(Max2(0, user_bbox_xywh["x"]), Max2(0, user_bbox_xywh["y"]),
                           Min2(size[1], user_bbox_xywh["x"] + user_bbox_xywh["width"]),
                           Min2(size[2], user_bbox_xywh["y"] + user_bbox_xywh["height"]),
                           locator)
    ELSE AutoHero(locator)
\* a loaded model whose automatic generator finds the box hero, or no mask
Locating(hero) ==
    [available |-> TRUE, predict |-> [kind |-> "raises"],
     auto |-> IF hero = NoBBox THEN [kind |-> "nomasks"]
              ELSE [kind |-> "masks",
                    bbox |-> <<hero[1], hero[2], hero[3] - hero[1], hero[4] - hero[2]>>]]

\* hero is the box the segmentation model finds in the source image
Request(shown, pos, copyFont, ctaFont, logoSel, hero) ==
    [sourceImage |-> <<800, 600>>,
     userInputHeroBbox |-> None,
     hero |-> hero,
     brandLogo |-> <<120, 40>>,
     includeLogo |-> "logo" \in shown,
     logoAppliesToAll |-> logoSel = None,
     logoSelectedFormats |-> IF logoSel = None THEN {} ELSE {logoSel[1]},
     logoPositionByOrientation |-> pos.logo,
     includeCopy |-> "copy" \in shown,
     adCopy |-> <<"a", "a", "a", " ", "a", "a", " ", " ", "a", "a", "a", "a", " ", "a">>,
     copyFontFamily |-> copyFont,
     copyAppliesToAll |-> TRUE,
     copySelectedFormats |-> {},
     copyPositionByOrientation |-> pos.copy,
     includeCta |-> "cta" \in shown,
     ctaText |-> <<"a", "a", " ", "a">>,
     ctaAppliesToAll |-> TRUE,
     ctaSelectedFormats |-> {},
     ctaPositionByOrientation |-> pos.cta,
     ctaFont |-> ctaFont]

Everywhere(key) == [o \in {"square", "portrait", "landscape"} |-> key]
NoPositions == [o \in {} |-> "top_center"]
DefaultPositions == [logo |-> NoPositions, copy |-> NoPositions, cta |-> NoPositions]
PosSchemes ==
    {DefaultPositions,
     [logo |-> Everywhere("bottom_center"), copy |-> Everywhere("bottom_center"),
      cta |-> Everywhere("bottom_center")],
     [logo |-> Everywhere("top_left"), copy |-> Everywhere("let_ai_choose"),
      cta |-> Everywhere("top_left")],
     [logo |-> Everywhere("let_ai_choose"), copy |-> Everywhere("right_middle"),
      cta |-> [o \in {"landscape"} |-> "right_middle"]]}
\* three groups, two of them on the top edge and two on the right edge
SharedEdges ==
    [logo |-> Everywhere("top_left"), copy |-> Everywhere("top_right"),
     cta |-> Everywhere("bottom_right")]
Hero == <<200, 100, 600, 500>>
Requests ==
    {Request(shown, pos, "arial.ttf", "arial.ttf", None, Hero) :
        shown \in SUBSET {"logo", "copy", "cta"}, pos \in PosSchemes \cup {SharedEdges}}
    \cup {Request({"logo", "copy", "cta"}, pos, "Inter-Regular.ttf", "cour.ttf", <<"mrec">>, NoBBox) :
            pos \in PosSchemes}
    \cup {Request({"copy", "cta"}, pos, "arial.ttf", "nosuch.ttf", None, Hero) :
            pos \in PosSchemes}
    \cup {[Request({"copy"}, pos, "", "arial.ttf", None, Hero)
              EXCEPT !.sourceImage = None] : pos \in PosSchemes}
    \cup {[Request({"copy"}, DefaultPositions, "arial.ttf", "arial.ttf", None, Hero)
              EXCEPT !.sourceImage = BadData],
          [Request({"logo", "cta"}, DefaultPositions, "arial.ttf", "arial.ttf", None, Hero)
              EXCEPT !.brandLogo = BadData],
          [Request({"cta"}, DefaultPositions, "arial.ttf", "arial.ttf", None, Hero)
              EXCEPT !.brandLogo = BadData]}
FontDirs == {FontMap, FontMap \ {"arial.ttf"}}

Formats ==
    {Fmt("mrec", 300, 250), Fmt("story", 1440, 2560), Fmt("wide", 1200, 628),
     Fmt("square", 600, 600), Fmt("dot", 7, 7)}
FormatLists ==
    {<<f>> : f \in Formats}
    \cup {<<Fmt("mrec", 300, 250), Fmt("dot", 7, 7)>>,
          <<Fmt("mrec", 300, 250), Fmt("story", 1440, 2560)>>,
          <<Fmt("story", 1440, 2560), Fmt("wide", 1200, 628)>>,
          <<Fmt("wide", 1200, 628), Fmt("square", 600, 600)>>,
          <<Fmt("square", 600, 600), Fmt("mrec", 300, 250)>>}
\* the second request: the same formats, or others added, removed, reordered
Variants(formats) ==
    {formats, Reverse(formats), <<formats[1]>>, <<formats[Len(formats)]>>}
\* the iteration order of string sets in the process serving each request
Seeds == <<0, 1>>

NoResponse == [status |-> 0, produced |-> <<>>]
Response(status, produced) == [status |-> status, produced |-> produced]
\* the function's locals before the first pass of the loop
NoLocals == [lss_ref |-> 0]

Arrived(req, installed, lists, seeds, k, out) ==
    [pc |-> "recv", req |-> req, installed |-> installed, lists |-> lists,
     seeds |-> seeds, k |-> k, i |-> 0, src |-> None, logo |-> None,
     hero_bbox |-> NoBBox, copy_font_path |-> "", cta_font_path |-> "",
     locals |-> NoLocals, produced |-> <<>>, out |-> out]

Init ==
    /\ rq \in {Arrived(r, d, <<a, b>>, Seeds, 1, <<NoResponse, NoResponse>>) :
                 r \in Requests, d \in FontDirs, a \in FormatLists,
                 b \in UNION {Variants(l) : l \in FormatLists}}
    /\ rq.lists[2] \in Variants(rq.lists[1])
    /\ rq.installed = FontMap \/ rq.req.ctaFont = "nosuch.ttf"
    /\ cv = Idle
    /\ ff = Idle
    /\ wf = Idle

\* the request after this one, or none
Answered(st, response) ==
    IF st.k = 1
    THEN Arrived(st.req, st.installed, st.lists, st.seeds, 2,
                 [st.out EXCEPT ![1] = response])
    ELSE [st EXCEPT !.pc = "end", !.out[2] = response]

\* decode_data_url: the image of a data URL, or HTTPException(400) for a
\* missing one and for data that is not an image
DecodeFailed == [raised |-> TRUE, image |-> None]
decode_data_url(data_url) ==
    IF data_url = None \/ data_url = BadData THEN DecodeFailed
    ELSE [raised |-> FALSE, image |-> data_url]
\* logo_pil_img
DecodedLogo(req) ==
    IF req.brandLogo # None /\ req.includeLogo THEN decode_data_url(req.brandLogo)
    ELSE [raised |-> FALSE, image |-> None]
\* lines 337-347: decode the images, find the hero, resolve the font paths
Decoded(st) ==
    [st EXCEPT !.pc = "loop", !.i = 1,
               !.src = decode_data_url(st.req.sourceImage).image,
               !.logo = DecodedLogo(st.req).image,
               !.hero_bbox = get_hero_bbox_from_input_or_sam(
                                 st.req.sourceImage, st.req.userInputHeroBbox,
                                 Locating(st.req.hero)).bbox,
               !.copy_font_path = get_font_path(st.req.copyFontFamily, st.installed),
               !.cta_font_path = get_font_path(st.req.ctaFont, st.installed)]
\* the handler up to the format loop; except HTTPException: raise
Receive ==
    /\ rq # Idle
    /\ rq.pc = "recv"
    /\ rq' = IF decode_data_url(rq.req.sourceImage).raised \/ DecodedLogo(rq.req).raised
             THEN Answered(rq, Response(400, <<>>))
             ELSE IF get_hero_bbox_from_input_or_sam(
                         rq.req.sourceImage, rq.req.userInputHeroBbox,
                         Locating(rq.req.hero)).raised
                  THEN Answered(rq, Response(500, <<>>))
             ELSE Decoded(rq)
    /\ UNCHANGED <<cv, ff, wf>>

\* the context of the pass for format i of the request being served
Context(st) ==
    [req |-> st.req, src |-> st.src, logo |-> st.logo, hero_bbox |-> st.hero_bbox,
     copy_font |-> FontFace(st.copy_font_path, st.installed),
     cta_font |-> FontFace(st.cta_font_path, st.installed),
     fmt |-> st.lists[st.k][st.i], seed |-> st.seeds[st.k], locals |-> st.locals]
InLoop(st) == st # Idle /\ st.pc = "loop" /\ st.i <= Len(st.lists[st.k])
\* output_results[fid] = ...: a dict keeps the place of a key it already has
PutResult(results, plan) ==
    IF \E j \in 1 .. Len(results) : results[j].fid = plan.fid
    THEN [j \in 1 .. Len(results) |->
             IF results[j].fid = plan.fid THEN plan ELSE results[j]]
    ELSE Append(results, plan)
Stored(st, plan) ==
    [st EXCEPT !.produced = PutResult(@, plan), !.i = @ + 1,
               !.locals = [lss_ref |-> plan.lss_ref]]

\* one pass of the format loop that ends with output_results[fid] = ...
PlanOne ==
    /\ InLoop(rq)
    /\ \E plan \in {PlanFormat(Context(rq))} :
           /\ ~plan.raised
           /\ rq' = Stored(rq, plan)
    /\ UNCHANGED <<cv, ff, wf>>

\* except Exception: raise HTTPException(500, ...)
AbortedKeepingRendered(st) == Answered(st, Response(200, st.produced))
Aborted(st) == Answered(st, Response(500, <<>>))
\* a pass that raises
PlanFails ==
    /\ InLoop(rq)
    /\ PlanFormat(Context(rq)).raised
    /\ rq' = Aborted(rq)
    /\ UNCHANGED <<cv, ff, wf>>

\* return {"results": output_results}
Respond ==
    /\ rq # Idle
    /\ rq.pc = "loop"
    /\ rq.i > Len(rq.lists[rq.k])
    /\ rq' = Answered(rq, Response(200, rq.produced))
    /\ UNCHANGED <<cv, ff, wf>>

Next == Receive \/ PlanOne \/ PlanFails \/ Respond

Spec == Init /\ [][Next]_vars

(***************************************************************************)
(* Properties of the compositor                                            *)
(***************************************************************************)
Composed == cv # Idle /\ cv.out # NotRun
Painted == Composed /\ cv.out.regime \in {"cover", "hero"}
ClaimDegenerate(bbox) == bbox # NoBBox /\ (bbox[3] - bbox[1] <= 0 \/ bbox[4] - bbox[2] <= 0)

\* C1 (regime equivalence): a call with a degenerate hero bbox (x2 - x1 <= 0
\* or y2 - y1 <= 0, (0,0,0,0) included) returns the same scale, resized size
\* and crop box as the call with hero_bbox = None on the same other inputs.
C1_RegimeEquivalence ==
    (Composed /\ ClaimDegenerate(cv.bbox)) =>
        cv.out = create_base_canvas_with_hero(cv.iw, cv.ih, cv.tw, cv.th, NoBBox,
                     cv.area[1], cv.area[2], cv.area[3], cv.area[4])

\* a zero-height hero of positive width, in a positive hero area, was composed
\* by the cover crop
C1_Witness ==
    /\ Composed
    /\ cv.bbox # NoBBox
    /\ cv.bbox[3] - cv.bbox[1] > 0
    /\ cv.bbox[4] - cv.bbox[2] = 0
    /\ cv.area[3] > 0 /\ cv.area[4] > 0
    /\ cv.out.regime = "cover"

\* C2 (cover guarantee): the scale applied to the source is never below the
\* cover scale max(tw / iw, th / ih), in either regime.
C2_CoverGuarantee ==
    Painted =>
        FCmp(cv.out.scale, FMax(FDivInts(cv.tw, cv.iw), FDivInts(cv.th, cv.ih))) >= 0

\* a usable hero whose prominence scale raised the scale above the cover scale
C2_Witness ==
    /\ Painted
    /\ cv.out.regime = "hero"
    /\ FCmp(cv.out.scale, ScaleToCoverCanvas(cv.iw, cv.ih, cv.tw, cv.th)) > 0

\* C3 (crop clamp): the crop box taken from the resized image satisfies
\* 0 <= left <= right <= resizedW and 0 <= top <= bottom <= resizedH.
C3_CropClamp ==
    Painted =>
        /\ 0 <= cv.out.crop[1] /\ cv.out.crop[1] <= cv.out.crop[3]
        /\ cv.out.crop[3] <= cv.out.resized[1]
        /\ 0 <= cv.out.crop[2] /\ cv.out.crop[2] <= cv.out.crop[4]
        /\ cv.out.crop[4] <= cv.out.resized[2]

\* a usable hero with the hero area wholly to the right of the canvas: the
\* unclamped crop origin is negative
C3_Witness ==
    /\ Painted
    /\ cv.out.regime = "hero"
    /\ cv.area[1] > cv.tw
    /\ cv.out.crop[1] = 0

\* C4 (full coverage): for a source and a target of at least 1x1 the resized
\* image is at least tw x th and the pasted crop is exactly tw x th.
C4_FullCoverage ==
    (Composed /\ cv.iw >= 1 /\ cv.ih >= 1) =>
        /\ cv.out.resized[1] >= cv.tw
        /\ cv.out.resized[2] >= cv.th
        /\ cv.out.crop[3] - cv.out.crop[1] = cv.tw
        /\ cv.out.crop[4] - cv.out.crop[2] = cv.th

(***************************************************************************)
(* Properties of the font-size search                                      *)
(***************************************************************************)
Searched == ff # Idle /\ ff.pc = "done"
HeightGap(font, size, target) == AbsInt(HeightAt(font, size) - target)
NonDecreasing(font) ==
    \A s \in MinSize .. MaxSize - 1 : HeightAt(font, s) <= HeightAt(font, s + 1)
\* the returned size is in [10, 128] and no immediate neighbour in [10, 128]
\* measures closer to the target
NeighbourOptimal ==
    /\ ff.result \in MinSize .. MaxSize
    /\ \A n \in {ff.result - 1, ff.result + 1} \cap (MinSize .. MaxSize) :
           HeightGap(ff.font, ff.result, ff.target) <= HeightGap(ff.font, n, ff.target)

\* C7 as stated: for every height function, the search returns a size in
\* [10, 128] at least as close to the target as both immediate neighbours.
C7_AnyHeightFunction == Searched => NeighbourOptimal

\* C7 amended: the search ends within 7 probes, and for every non-decreasing
\* height function it returns a size in [10, 128] at least as close to the
\* target as both immediate neighbours.
C7_NonDecreasingHeights ==
    /\ ff # Idle => ff.steps <= 7
    /\ (Searched /\ NonDecreasing(ff.font)) => NeighbourOptimal

\* a search on a non-decreasing font that never met the target exactly and
\* returned a tracked best size strictly inside the range
C7_Witness ==
    /\ Searched
    /\ NonDecreasing(ff.font)
    /\ ff.font.kind = "ttf"
    /\ ff.low > ff.high
    /\ ff.result > MinSize /\ ff.result < MaxSize
    /\ HeightAt(ff.font, ff.result) # ff.target

(***************************************************************************)
(* Properties of the text flow                                             *)
(***************************************************************************)
RECURSIVE Join(_)
Join(lines) ==
    IF lines = <<>> THEN <<>>
    ELSE IF Len(lines) = 1 THEN lines[1]
    ELSE lines[1] \o <<" ">> \o Join(Tail(lines))
Wrapped == wf # Idle /\ wf.pc # "wrap"
Fitted == wf # Idle /\ wf.pc = "done"
\* what the i-th returned line measures at the returned size
ReturnedWidth(i) == FitWidth(wf.font, wf.ac_font_sz, wf.lines[i])

\* C5: for a copy with at least one word the truncation fallback is never
\* taken, and whenever it is not taken the wrapped lines (the first wrap and
\* the wrap at every size tried) joined with single spaces are exactly the
\* words of the input joined with single spaces: no word dropped,
\* duplicated, split or reordered.
C5_WrapRoundTrip ==
    Wrapped =>
        /\ Split(wf.content) # <<>> => ~wf.truncated
        /\ ~wf.truncated =>
               /\ Join(wf.lines) = Join(Split(wf.content))
               /\ Join(wf.temp) = Join(Split(wf.content))
               /\ Split(Join(wf.lines)) = Split(wf.content)

\* a copy with surplus whitespace whose three words wrap into two lines
C5_Witness ==
    /\ Fitted
    /\ Len(Split(wf.content)) = 3
    /\ Len(wf.lines) = 2
    /\ wf.content # Join(Split(wf.content))

\* C6: the fitting loop terminates (while it runs, the size tried stays in
\* [10, start size] and the next step either leaves the loop or lowers the
\* size tried by one, so there are at most start - 10 shrinking steps),
\* and on return the final size is in [10, start size] and either every
\* returned line measures <= max width at the final size or the final size
\* is the minimum 10.
C6_ShrinkToFit ==
    /\ (wf # Idle /\ wf.pc = "fit") =>
           /\ wf.cur \in MinSize .. wf.start
           /\ wf.iters = wf.start - wf.cur
           /\ \/ FitLoopStep(wf).pc = "done"
              \/ FitLoopStep(wf).pc = "fit" /\ FitLoopStep(wf).cur = wf.cur - 1
    /\ Fitted =>
           /\ wf.ac_font_sz \in MinSize .. wf.start
           /\ \/ \A i \in 1 .. Len(wf.lines) : ReturnedWidth(i) <= wf.max_w
              \/ wf.ac_font_sz = MinSize

\* the loop ran out at the minimum size and a wrap that does not fit is
\* returned
C6_Witness ==
    /\ Fitted
    /\ wf.start > MinSize
    /\ wf.ac_font_sz = MinSize
    /\ wf.iters = wf.start - MinSize
    /\ \E i \in 1 .. Len(wf.lines) : ReturnedWidth(i) > wf.max_w


(***************************************************************************)
(* Properties of the layout planner and the /generate endpoint             *)
(***************************************************************************)
BothAnswered == rq # Idle /\ rq.pc = "end"
\* the passes finished so far by the request being served, and by the first
PlansOf(k) == IF rq.k = k /\ rq.pc # "end" THEN rq.produced ELSE rq.out[k].produced
ElemRank(name) == CASE name = "logo" -> 1 [] name = "copy" -> 2 [] OTHER -> 3
\* groups come in the order of their first members
GroupsInMemberOrder(plan) ==
    \A i, j \in 1 .. Len(plan.groups) :
        i < j => ElemRank(plan.groups[i].members[1]) < ElemRank(plan.groups[j].members[1])
\* the drawing calls of a pass are those of its groups' elements, in order
RECURSIVE OpElems(_, _)
OpElems(ops, last) ==
    IF ops = <<>> THEN <<>>
    ELSE IF Head(ops).el = last THEN OpElems(Tail(ops), last)
    ELSE <<Head(ops).el>> \o OpElems(Tail(ops), Head(ops).el)
RECURSIVE PlacedNames(_)
PlacedNames(groups) ==
    IF groups = <<>> THEN <<>>
    ELSE [i \in 1 .. Len(Head(groups).placed) |-> Head(groups).placed[i].name]
         \o PlacedNames(Tail(groups))

\* C8: two requests with identical content and format lists, served by
\* processes that iterate string sets in different orders, get identical
\* responses: the same drawing calls with the same coordinates in the same
\* order; groups are visited in the order of their first members (logo, copy,
\* cta) and the drawing calls follow the elements in their stacked order.
C8_Determinism ==
    /\ BothAnswered /\ rq.lists[1] = rq.lists[2] => rq.out[1] = rq.out[2]
    /\ rq # Idle =>
           \A k \in 1 .. 2 : \A i \in 1 .. Len(PlansOf(k)) :
               /\ GroupsInMemberOrder(PlansOf(k)[i])
               /\ OpElems(PlansOf(k)[i].ops, "") = PlacedNames(PlansOf(k)[i].groups)
C8_Witness ==
    /\ BothAnswered
    /\ rq.lists[1] = rq.lists[2]
    /\ rq.seeds[1] # rq.seeds[2]
    /\ rq.out[2].status = 200
    /\ \E i \in 1 .. Len(rq.out[2].produced) :
           /\ Len(rq.out[2].produced[i].groups) = 2
           /\ rq.out[2].produced[i].groups[1].key = "top_left"
           /\ Len(rq.out[2].produced[i].ops) >= 4

\* what a pass produced for a format identifier
SameForFormat(ps, qs) ==
    \A i \in 1 .. Len(ps), j \in 1 .. Len(qs) : ps[i].fid = qs[j].fid => ps[i] = qs[j]
\* C9: the canvas and the drawing calls produced for a format are the same
\* in two requests with the same images and overlay content whatever other
\* formats each request lists around it, and while the formats are processed
\* the decoded source image, logo image and hero box stay as decoded.
C9_FormatIndependence ==
    /\ rq # Idle /\ rq.k = 2 => SameForFormat(PlansOf(1), PlansOf(2))
    /\ rq # Idle /\ rq.pc = "loop" =>
           /\ rq.src = rq.req.sourceImage
           /\ rq.logo = (IF rq.req.includeLogo THEN rq.req.brandLogo ELSE None)
           /\ rq.hero_bbox = rq.req.hero
C9_Witness ==
    /\ BothAnswered
    /\ Len(rq.out[1].produced) = 2
    /\ Len(rq.out[2].produced) = 1
    /\ rq.out[1].produced[2].fid = rq.out[2].produced[1].fid
    /\ ~rq.req.includeLogo
    /\ Len(rq.out[2].produced[1].ops) >= 3
    /\ rq.out[1].produced[1].lss_ref # rq.out[1].produced[2].lss_ref

\* the order the claim gives for a group
ClaimedOrder(key, members) ==
    IF key = "bottom_center" /\ Len(members) = 2
    THEN SelectSeq(<<"copy", "cta", "logo">>,
                   LAMBDA n : \E i \in 1 .. Len(members) : members[i] = n)
    ELSE SelectSeq(<<"logo", "copy", "cta">>,
                   LAMBDA n : \E i \in 1 .. Len(members) : members[i] = n)
StackedAsClaimed(g) ==
    /\ [i \in 1 .. Len(g.placed) |-> g.placed[i].name] = ClaimedOrder(g.key, g.members)
    /\ \A i \in 1 .. Len(g.placed) - 1 : g.placed[i].y + g.placed[i].h <= g.placed[i + 1].y
\* C10: in every group the elements are placed from top to bottom in the
\* order logo, copy, cta, except in a bottom_center group of exactly two
\* members, where the order is copy before cta before logo; a bottom_center
\* group of three members uses the default order.
C10_StackingOrder ==
    rq # Idle =>
        \A k \in 1 .. 2 : \A i \in 1 .. Len(PlansOf(k)) :
            \A n \in 1 .. Len(PlansOf(k)[i].groups) :
                StackedAsClaimed(PlansOf(k)[i].groups[n])
C10_Witness ==
    /\ BothAnswered
    /\ Len(rq.out[1].produced) = 2
    /\ Len(rq.out[1].produced[1].groups) = 1
    /\ rq.out[1].produced[1].groups[1].key = "bottom_center"
    /\ rq.out[1].produced[1].groups[1].members = <<"logo", "cta">>
    /\ rq.out[1].produced[1].groups[1].placed[1].name = "cta"
    /\ rq.out[1].produced[1].groups[1].placed[2].name = "logo"
    /\ rq.out[1].produced[1].groups[1].placed[2].y > rq.out[1].produced[1].groups[1].placed[1].y

\* the rectangles of the elements a pass has drawn, group after group
RECURSIVE AllPlaced(_)
AllPlaced(groups) ==
    IF groups = <<>> THEN <<>> ELSE Head(groups).placed \o AllPlaced(Tail(groups))
\* two rectangles share a pixel
Intersect(a, b) ==
    /\ a.x < b.x + b.w
    /\ b.x < a.x + a.w
    /\ a.y < b.y + b.h
    /\ b.y < a.y + a.h
CollisionFree(plan) ==
    \A i, j \in 1 .. Len(AllPlaced(plan.groups)) :
        i < j => ~Intersect(AllPlaced(plan.groups)[i], AllPlaced(plan.groups)[j])
\* C11: on every format's canvas no two overlay elements (logo, copy block,
\* CTA button) are drawn at intersecting rectangles, whether they belong to
\* the same group or to different groups
C11_NoCollision ==
    rq # Idle =>
        \A k \in 1 .. 2 : \A i \in 1 .. Len(PlansOf(k)) : CollisionFree(PlansOf(k)[i])

\* the key the request selects for an element on a format, before resolution
SelectedKey(req, name, fmt) ==
    CASE name = "logo" -> GetPos(req.logoPositionByOrientation,
                                 Orientation(fmt.width, fmt.height), "top_center")
      [] name = "copy" -> GetPos(req.copyPositionByOrientation,
                                 Orientation(fmt.width, fmt.height), "bottom_center")
      [] OTHER -> GetPos(req.ctaPositionByOrientation,
                         Orientation(fmt.width, fmt.height), "bottom_center")
\* the members selected with let_ai_choose are in the bottom_center group
AliasResolved(req, plan) ==
    \A g \in 1 .. Len(plan.groups) : \A m \in 1 .. Len(plan.groups[g].members) :
        SelectedKey(req, plan.groups[g].members[m], plan.fmt) = "let_ai_choose"
            => plan.groups[g].key = "bottom_center"
\* C12: an element of any kind (logo, copy, CTA) whose selected key is
\* let_ai_choose is grouped and anchored as a bottom_center element
C12_LetAiChoose ==
    rq # Idle =>
        \A k \in 1 .. 2 : \A i \in 1 .. Len(PlansOf(k)) : AliasResolved(rq.req, PlansOf(k)[i])

(***************************************************************************)
(* get_element_position, called on its own                                 *)
(***************************************************************************)
AnchorKeys ==
    {"top_left", "top_center", "top_right", "left_middle", "center_middle",
     "right_middle", "bottom_left", "bottom_center", "bottom_right",
     "top", "bottom", "left", "right", "center", "middle", "let_ai_choose", ""}
AnchorZones == {<<21, 17, 258, 216>>, <<0, 0, 11, 10>>}
AnchorWidths == {0, 3, 57, 300}
AnchorHeights == {0, 4, 19, 250}
AnchorInit ==
    /\ rq \in [pc : {"call"}, pos_key : AnchorKeys, el_w : AnchorWidths,
               el_h : AnchorHeights, zone : AnchorZones]
    /\ cv = Idle
    /\ ff = Idle
    /\ wf = Idle
AnchorCall ==
    /\ rq # Idle
    /\ rq.pc = "call"
    /\ rq' = [pc |-> "return", pos_key |-> rq.pos_key, el_w |-> rq.el_w,
              el_h |-> rq.el_h, zone |-> rq.zone,
              pos |-> get_element_position(rq.pos_key, rq.el_w, rq.el_h, rq.zone[1],
                                           rq.zone[2], rq.zone[3], rq.zone[4])]
    /\ UNCHANGED <<cv, ff, wf>>
AnchorNext == AnchorCall
SpecAnchor == AnchorInit /\ [][AnchorNext]_vars

\* the horizontal and the vertical word of a key, as the claim reads it
XWord(key) ==
    CASE key \in {"top_left", "left_middle", "bottom_left", "left"} -> "left"
      [] key \in {"top_right", "right_middle", "bottom_right", "right"} -> "right"
      [] key \in {"top_center", "center_middle", "bottom_center", "center"} -> "center"
      [] OTHER -> "none"
YWord(key) ==
    CASE key \in {"top_left", "top_center", "top_right", "top"} -> "top"
      [] key \in {"bottom_left", "bottom_center", "bottom_right", "bottom"} -> "bottom"
      [] key \in {"left_middle", "center_middle", "right_middle", "middle"} -> "middle"
      [] OTHER -> "none"
\* floor(n / 2) for any integer n
FloorHalf(n) == IF n >= 0 THEN n \div 2 ELSE -((1 - n) \div 2)
ClaimedAnchor(word, origin, extent, size) ==
    CASE word \in {"right", "bottom"} -> origin + extent - size
      [] word \in {"center", "middle"} -> origin + FloorHalf(extent - size)
      [] OTHER -> origin
\* C13: get_element_position puts a block at the zone's left edge, right
\* edge (zone_x + zone_w - w) or horizontal centre (zone_x + floor((zone_w -
\* w) / 2)) for a key with left, right or center, at its top, bottom or
\* vertical centre for a key with top, bottom or middle, and at the zone's
\* origin on an axis for which the key has no word
C13_AnchorResolution ==
    rq # Idle /\ rq.pc = "return" =>
        rq.pos = <<ClaimedAnchor(XWord(rq.pos_key), rq.zone[1], rq.zone[3], rq.el_w),
                   ClaimedAnchor(YWord(rq.pos_key), rq.zone[2], rq.zone[4], rq.el_h)>>
C13_Witness ==
    /\ rq # Idle
    /\ rq.pc = "return"
    /\ rq.pos_key = "center"
    /\ rq.zone = <<0, 0, 11, 10>>
    /\ rq.el_w = 300
    /\ rq.pos = <<-145, 0>>

(***************************************************************************)
(* The safe area of a format (lines 356-364), computed on its own          *)
(***************************************************************************)
SafeSides == {1, 14, 15, 99, 100, 101, 250, 300, 628, 1200, 1440, 2560}
SafeInit ==
    /\ rq \in [pc : {"call"}, tw : SafeSides, th : SafeSides]
    /\ cv = Idle
    /\ ff = Idle
    /\ wf = Idle
SafeCall ==
    /\ rq # Idle
    /\ rq.pc = "call"
    /\ rq' = [pc |-> "return", tw |-> rq.tw, th |-> rq.th,
              area |-> SafeArea(rq.tw, rq.th)]
    /\ UNCHANGED <<cv, ff, wf>>
SafeNext == SafeCall
SpecSafe == SafeInit /\ [][SafeNext]_vars

\* floor(0.07 * n) in exact arithmetic
SevenPercent(n) == (7 * n) \div 100
ClaimedSafeArea(W, H) ==
    IF W = 1440 /\ H = 2560 THEN [sx |-> 127, sy |-> 254, sw |-> 1182, sh |-> 2072]
    ELSE [sx |-> SevenPercent(W), sy |-> SevenPercent(H),
          sw |-> W - 2 * SevenPercent(W), sh |-> H - 2 * SevenPercent(H)]
InsideCanvas(a, W, H) ==
    /\ a.sx >= 0
    /\ a.sy >= 0
    /\ a.sw >= 0
    /\ a.sh >= 0
    /\ a.sx + a.sw <= W
    /\ a.sy + a.sh <= H
\* C14: the safe rectangle of the 1440 x 2560 format is (127, 254, 1182,
\* 2072); that of every other format, 2560 x 1440 included, is x = floor(0.07
\* W), y = floor(0.07 H), w = W - 2x, h = H - 2y; it always lies inside the
\* canvas
C14_SafeArea ==
    rq # Idle /\ rq.pc = "return" =>
        /\ rq.area = ClaimedSafeArea(rq.tw, rq.th)
        /\ InsideCanvas(rq.area, rq.tw, rq.th)
C14_Witness ==
    /\ rq # Idle
    /\ rq.pc = "return"
    /\ rq.tw = 2560
    /\ rq.th = 1440
    /\ rq.area = [sx |-> 179, sy |-> 100, sw |-> 2202, sh |-> 1240]

(***************************************************************************)
(* The CTA button sized on its own: the pre-pass and the final-pass code   *)
(* for one reference scale, text, font and safe width                      *)
(***************************************************************************)
CtaRefs == {0, 1, 5, 15, 16, 17, 19, 35, 72, 100, 133, 134, 150}
CtaTexts == {<<>>, <<"a">>, <<"a", "a", " ", "a">>}
CtaFonts == {Font("ttf", 9, 0, 10), Font("nobbox", 10, 0, 10)}
CtaSafeWidths == {10, 258, 1182}
\* the locals the CTA code reads
CtaContext(r, text, font, sw) ==
    [lss_ref |-> r, req |-> [ctaText |-> text], cta_font |-> font, sw |-> sw]
CtaInit ==
    /\ rq \in [pc : {"call"}, r : CtaRefs, text : CtaTexts, font : CtaFonts,
               sw : CtaSafeWidths]
    /\ cv = Idle
    /\ ff = Idle
    /\ wf = Idle
CtaSize ==
    /\ rq # Idle
    /\ rq.pc = "call"
    /\ rq' = [pc |-> "return", r |-> rq.r, text |-> rq.text, font |-> rq.font,
              sw |-> rq.sw,
              pre |-> CtaPrepass(CtaContext(rq.r, rq.text, rq.font, rq.sw)),
              fin |-> CtaBlock(CtaContext(rq.r, rq.text, rq.font, rq.sw))]
    /\ UNCHANGED <<cv, ff, wf>>
CtaNext == CtaSize
SpecCta == CtaInit /\ [][CtaNext]_vars

\* clamp(floor(0.6 * r), 10, 80) in exact arithmetic
ClaimedCtaFont(r) ==
    IF (6 * r) \div 10 < 10 THEN 10 ELSE IF (6 * r) \div 10 > 80 THEN 80
    ELSE (6 * r) \div 10
\* the width of the uppercased text at a size
UpperWidth(font, size, text) ==
    IF font.kind = "nobbox" THEN 0
    ELSE (AdvanceSum([i \in 1 .. Len(text) |-> IF text[i] = "a" THEN "A" ELSE text[i]])
              * size * font.wid) \div 100
\* C15: for every reference scale r and CTA text the button is r high, its
\* font size is clamp(floor(0.6 r), 10, 80), its text starts one font size
\* from the left edge and its width is min(width of the uppercased text + 2
\* font sizes, safe width), so r = 100 gives font size 60, height 100 and
\* padding 60; the pre-pass computes the same width and height
C15_CtaSizing ==
    rq # Idle /\ rq.pc = "return" =>
        /\ rq.fin.height = rq.r
        /\ rq.fin.size = ClaimedCtaFont(rq.r)
        /\ rq.fin.text_offset_x = ClaimedCtaFont(rq.r)
        /\ rq.fin.width =
               (IF UpperWidth(rq.font, ClaimedCtaFont(rq.r), rq.text)
                     + 2 * ClaimedCtaFont(rq.r) < rq.sw
                THEN UpperWidth(rq.font, ClaimedCtaFont(rq.r), rq.text)
                        + 2 * ClaimedCtaFont(rq.r)
                ELSE rq.sw)
        /\ rq.pre.width = rq.fin.width
        /\ rq.pre.height = rq.fin.height
        /\ rq.r = 100 => rq.fin.size = 60 /\ rq.fin.height = 100
                            /\ rq.fin.text_offset_x = 60
C15_Witness ==
    /\ rq # Idle
    /\ rq.pc = "return"
    /\ rq.r = 100
    /\ rq.text = <<"a", "a", " ", "a">>
    /\ rq.font.kind = "ttf"
    /\ rq.sw = 1182
    /\ rq.fin.size = 60
    /\ rq.fin.width = 264
    /\ rq.pre.width = 264
    /\ rq.pre.height = 100

\* an element whose computed width or height is 0
ZeroSized(e) == e.w = 0 \/ e.h = 0
\* no drawing call of the pass belongs to the element
NotDrawn(plan, name) == \A o \in 1 .. Len(plan.ops) : plan.ops[o].el # name
\* the stack goes on below the element's slot
SlotKept(placed, m) ==
    m < Len(placed) => placed[m + 1].y >= placed[m].y + placed[m].h
ZeroSizeSkipped(plan) ==
    \A g \in 1 .. Len(plan.groups) : \A m \in 1 .. Len(plan.groups[g].placed) :
        ZeroSized(plan.groups[g].placed[m])
            => /\ NotDrawn(plan, plan.groups[g].placed[m].name)
               /\ SlotKept(plan.groups[g].placed, m)
\* every font the request uses can be loaded
FontsLoad(st) ==
    /\ FontFace(get_font_path(st.req.copyFontFamily, st.installed), st.installed).kind
           # "missing"
    /\ FontFace(get_font_path(st.req.ctaFont, st.installed), st.installed).kind
           # "missing"
\* C16: an overlay element whose computed width or height is 0 emits no
\* drawing call and causes no failure, and the stack still advances past its
\* slot
C16_ZeroSizeSkipped ==
    rq # Idle =>
        /\ \A k \in 1 .. 2 : \A i \in 1 .. Len(PlansOf(k)) : ZeroSizeSkipped(PlansOf(k)[i])
        /\ FontsLoad(rq) => \A k \in 1 .. 2 : rq.out[k].status # 500

\* the logo, where a format of the list shows it, has a positive size
LogoDrawable(req, fmt) ==
    Shows(req, req.brandLogo, fmt.id).logo
        => /\ LogoSize(req.brandLogo, fmt.width, fmt.height,
                       SafeArea(fmt.width, fmt.height).sw,
                       SafeArea(fmt.width, fmt.height).sh).w > 0
           /\ LogoSize(req.brandLogo, fmt.width, fmt.height,
                       SafeArea(fmt.width, fmt.height).sw,
                       SafeArea(fmt.width, fmt.height).sh).h > 0
\* request k is answered with a result for every format of its list
AllRendered(k) ==
    /\ rq.out[k].status = 200
    /\ Len(rq.out[k].produced) = Len(rq.lists[k])
    /\ \A i \in 1 .. Len(rq.lists[k]) : rq.out[k].produced[i].fid = rq.lists[k][i].id
\* C17: whatever copy and CTA font the request names (none, an unknown one,
\* one whose file does not exist) and whether or not the default font file
\* exists, generation completes with a result for every format
C17_FontsNeverFatal ==
    rq # Idle =>
        \A k \in 1 .. 2 :
            (/\ rq.out[k].status # 0
             /\ ~decode_data_url(rq.req.sourceImage).raised
             /\ ~DecodedLogo(rq.req).raised
             /\ \A i \in 1 .. Len(rq.lists[k]) : LogoDrawable(rq.req, rq.lists[k][i]))
                => AllRendered(k)

(***************************************************************************)
(* Hero detection on its own, followed by the composition of one format    *)
(***************************************************************************)
\* userInputHeroBbox: none, a dict without all four keys, a box inside the
\* image, an empty one, one outside the image, one reaching over its corner
UserBoxes ==
    {None, [x |-> 10],
     [x |-> 100, y |-> 50, width |-> 200, height |-> 100],
     [x |-> 100, y |-> 50, width |-> 0, height |-> 100],
     [x |-> 900, y |-> 50, width |-> 200, height |-> 100],
     [x |-> -50, y |-> -50, width |-> 200, height |-> 100]}
PredictOutcomes ==
    {[kind |-> "raises"], [kind |-> "empty"],
     [kind |-> "mask", box |-> <<120, 60, 280, 140>>]}
AutoOutcomes ==
    {[kind |-> "raises"], [kind |-> "nomasks"],
     [kind |-> "masks", bbox |-> <<200, 100, 400, 400>>]}
HeroFormats == {Fmt("mrec", 300, 250), Fmt("wide", 1200, 628)}
HeroInit ==
    /\ rq \in [pc : {"call"}, size : {<<800, 600>>}, user : UserBoxes,
               available : BOOLEAN, predict : PredictOutcomes, auto : AutoOutcomes,
               fmt : HeroFormats]
    /\ cv = Idle
    /\ ff = Idle
    /\ wf = Idle
Located(st) ==
    get_hero_bbox_from_input_or_sam(
        st.size, st.user,
        [available |-> st.available, predict |-> st.predict, auto |-> st.auto])
\* the call returns a box or None
Locate ==
    /\ rq # Idle
    /\ rq.pc = "call"
    /\ ~Located(rq).raised
    /\ rq' = [pc |-> "located", size |-> rq.size, user |-> rq.user,
              available |-> rq.available, fmt |-> rq.fmt, bbox |-> Located(rq).bbox]
    /\ UNCHANGED <<cv, ff, wf>>
\* the call raises
LocateRaises ==
    /\ rq # Idle
    /\ rq.pc = "call"
    /\ Located(rq).raised
    /\ rq' = [pc |-> "raised", size |-> rq.size, user |-> rq.user,
              available |-> rq.available, fmt |-> rq.fmt]
    /\ UNCHANGED <<cv, ff, wf>>
\* the format composed with the box found, the hero area being the safe area
ComposeLocated ==
    /\ rq # Idle
    /\ rq.pc = "located"
    /\ rq' = [pc |-> "composed", size |-> rq.size, user |-> rq.user,
              available |-> rq.available, fmt |-> rq.fmt, bbox |-> rq.bbox,
              canvas |-> create_base_canvas_with_hero(
                             rq.size[1], rq.size[2], rq.fmt.width, rq.fmt.height,
                             rq.bbox,
                             SafeArea(rq.fmt.width, rq.fmt.height).sx,
                             SafeArea(rq.fmt.width, rq.fmt.height).sy,
                             SafeArea(rq.fmt.width, rq.fmt.height).sw,
                             SafeArea(rq.fmt.width, rq.fmt.height).sh)]
    /\ UNCHANGED <<cv, ff, wf>>
HeroNext == Locate \/ LocateRaises \/ ComposeLocated
SpecHero == HeroInit /\ [][HeroNext]_vars

\* C18: whatever the hero locator does and whatever user box is supplied,
\* get_hero_bbox_from_input_or_sam returns a bbox or None without raising,
\* and with None every format is composed by the cover-crop regime
C18_HeroNeverFatal ==
    rq # Idle =>
        /\ rq.pc # "raised"
        /\ rq.pc = "composed" /\ rq.bbox = NoBBox => rq.canvas.regime = "cover"

\* an image the request uses cannot be decoded
Undecodable(req) ==
    \/ req.sourceImage \in {None, BadData}
    \/ req.includeLogo /\ req.brandLogo = BadData
\* the request carries a source or a logo image that cannot be decoded
CarriesUndecodable(req) ==
    req.sourceImage \in {None, BadData} \/ req.brandLogo = BadData
\* request k failed as a whole: an error status and no results
FailedWhole(k) == rq.out[k].status \in {400, 500} /\ rq.out[k].produced = <<>>
\* C19: an answered request has a result for every requested format or has
\* failed as a whole with no results; it is answered 400 exactly when the
\* source, or the logo of a request that includes its logo, cannot be
\* decoded; and while a request is being
\* rendered the formats before the current one are the ones rendered so far,
\* so a 500 discards them
C19_AllOrNothing ==
    rq # Idle =>
        /\ \A k \in 1 .. 2 : rq.out[k].status # 0 =>
               /\ AllRendered(k) \/ FailedWhole(k)
               /\ Undecodable(rq.req) <=> rq.out[k].status = 400
        /\ rq.pc = "loop" => Len(rq.produced) = rq.i - 1
\* C19 as stated: as above, with 400 for every request carrying a source or
\* a logo image that cannot be decoded, the logo included or not
C19_AsStated ==
    rq # Idle =>
        /\ \A k \in 1 .. 2 : rq.out[k].status # 0 =>
               /\ AllRendered(k) \/ FailedWhole(k)
               /\ CarriesUndecodable(rq.req) => rq.out[k].status = 400
               /\ rq.out[k].status = 400 => CarriesUndecodable(rq.req)
        /\ rq.pc = "loop" => Len(rq.produced) = rq.i - 1
\* the first list's second format failed after its first was rendered (the
\* second request, with the first format alone, is answered with it), and
\* the answer is a 500 without results
C19_Witness ==
    /\ BothAnswered
    /\ Len(rq.lists[1]) = 2
    /\ rq.lists[2] = <<rq.lists[1][1]>>
    /\ AllRendered(2)
    /\ rq.out[1] = Response(500, <<>>)
\* an undecodable logo is answered 400
C19_WitnessLogo ==
    /\ BothAnswered
    /\ rq.req.brandLogo = BadData
    /\ rq.out[1] = Response(400, <<>>)

\* the rectangle lies entirely within the safe rectangle
WithinSafe(e, safe) ==
    /\ safe.sx <= e.x /\ e.x + e.w <= safe.sx + safe.sw
    /\ safe.sy <= e.y /\ e.y + e.h <= safe.sy + safe.sh
\* every element the pass draws is drawn within the format's safe rectangle
OverlaysInSafeArea(plan) ==
    \A g \in 1 .. Len(plan.groups) : \A m \in 1 .. Len(plan.groups[g].placed) :
        ~NotDrawn(plan, plan.groups[g].placed[m].name)
            => WithinSafe(plan.groups[g].placed[m],
                          SafeArea(plan.fmt.width, plan.fmt.height))
\* C20: for every format and every combination of enabled overlays, content
\* and position keys, the rectangle at which each overlay element is drawn
\* (logo paste, copy block, CTA button) lies entirely within that format's
\* safe rectangle
C20_OverlaysInSafeArea ==
    rq # Idle =>
        \A k \in 1 .. 2 : \A i \in 1 .. Len(PlansOf(k)) :
            OverlaysInSafeArea(PlansOf(k)[i])

(***************************************************************************)
(* The pre-pass reservations and the final blocks                          *)
(***************************************************************************)
\* the key names the edge
OnEdge(key, edge) == edge \in {XWord(key), YWord(key)}
\* a footprint's extent along the edge: its height at the top and the
\* bottom, its width at the left and the right
AlongEdge(extent, edge) == IF edge \in {"top", "bottom"} THEN extent[2] ELSE extent[1]
RECURSIVE FootprintSum(_, _)
FootprintSum(footprints, edge) ==
    IF footprints = <<>> THEN 0
    ELSE (IF OnEdge(Head(footprints).key, edge)
          THEN AlongEdge(Head(footprints).extent, edge) ELSE 0)
         + FootprintSum(Tail(footprints), edge)
\* the generic spacing: 2% of the safe rectangle's shorter side, at least 3
GenericGap(safe) ==
    IF (2 * (IF safe.sw < safe.sh THEN safe.sw ELSE safe.sh)) \div 100 < 3 THEN 3
    ELSE (2 * (IF safe.sw < safe.sh THEN safe.sw ELSE safe.sh)) \div 100
ClaimedEdgeTotal(plan, edge) ==
    FootprintSum(plan.footprints, edge)
        + (IF \E g \in 1 .. Len(plan.footprints) : OnEdge(plan.footprints[g].key, edge)
           THEN GenericGap(plan.safe) ELSE 0)
\* C21: for each edge, the total reserved in pass 1 is the sum of the
\* footprint heights (top, bottom) or widths (left, right) of the groups
\* whose key names the edge, plus one generic spacing if there is such a
\* group and 0 otherwise; a corner key counts for both of its edges and a
\* key without an edge word for none
C21_EdgeTotals ==
    rq # Idle =>
        \A k \in 1 .. 2 : \A i \in 1 .. Len(PlansOf(k)) :
            \A edge \in {"top", "bottom", "left", "right"} :
                PlansOf(k)[i].occupied[edge] = ClaimedEdgeTotal(PlansOf(k)[i], edge)
\* three groups measured, two corner groups sharing the top edge: its total
\* is the two heights and one gap, and the left edge holds one width and a gap
C21_Witness ==
    /\ rq # Idle /\ Len(PlansOf(1)) >= 1
    /\ Len(PlansOf(1)[1].footprints) = 3
    /\ PlansOf(1)[1].footprints[1].key = "top_left"
    /\ PlansOf(1)[1].footprints[2].key = "top_right"
    /\ PlansOf(1)[1].footprints[1].extent[2] > 0
    /\ PlansOf(1)[1].footprints[2].extent[2] > 0
    /\ PlansOf(1)[1].occupied.top
           = PlansOf(1)[1].footprints[1].extent[2] + PlansOf(1)[1].footprints[2].extent[2]
             + GenericGap(PlansOf(1)[1].safe)
    /\ PlansOf(1)[1].occupied.left
           = PlansOf(1)[1].footprints[1].extent[1] + GenericGap(PlansOf(1)[1].safe)

\* the safe rectangle inset by the four edge totals
InsetBy(safe, occupied) ==
    <<safe.sx + occupied.left, safe.sy + occupied.top,
      safe.sw - occupied.left - occupied.right,
      safe.sh - occupied.top - occupied.bottom>>
\* a rectangle <<x, y, w, h>> of positive size lying within the safe rectangle
PositiveWithin(area, safe) ==
    /\ area[3] > 0 /\ area[4] > 0
    /\ safe.sx <= area[1] /\ area[1] + area[3] <= safe.sx + safe.sw
    /\ safe.sy <= area[2] /\ area[2] + area[4] <= safe.sy + safe.sh
HeroAreaAsClaimed(plan) ==
    /\ plan.hero_area = InsetBy(plan.safe, plan.occupied)
    /\ PositiveWithin(plan.hero_area, plan.safe)
\* C22: the rectangle passed to the compositor is the safe rectangle inset by
\* the four edge totals (x = safeX + left, y = safeY + top, w = safeW - left
\* - right, h = safeH - top - bottom), has positive width and height and lies
\* entirely within the safe rectangle, for every combination of overlays
C22_HeroArea ==
    rq # Idle =>
        \A k \in 1 .. 2 : \A i \in 1 .. Len(PlansOf(k)) : HeroAreaAsClaimed(PlansOf(k)[i])

\* the member of the given name among those measured or placed
MemberNamed(members, name) ==
    members[CHOOSE m \in 1 .. Len(members) : members[m].name = name]
\* pass 1 and pass 2 give the group the same extent and every member the
\* same size
GroupAgrees(footprint, group) ==
    /\ footprint.key = group.key
    /\ footprint.extent = <<group.block.w, group.block.h>>
    /\ Len(footprint.members) = Len(group.placed)
    /\ \A m \in 1 .. Len(group.placed) :
           /\ MemberNamed(footprint.members, group.placed[m].name).w = group.placed[m].w
           /\ MemberNamed(footprint.members, group.placed[m].name).h = group.placed[m].h
PassesAgree(plan) ==
    /\ Len(plan.footprints) = Len(plan.groups)
    /\ \A g \in 1 .. Len(plan.groups) : GroupAgrees(plan.footprints[g], plan.groups[g])
\* C23: for every group of every format, the footprint (width, height)
\* predicted in pass 1 equals the block (width, height) computed for the
\* group in pass 2, and each member's width and height is the same in both
\* passes
C23_PassAgreement ==
    rq # Idle =>
        \A k \in 1 .. 2 : \A i \in 1 .. Len(PlansOf(k)) : PassesAgree(PlansOf(k)[i])

\* the block lies in the strip reserved along the edge of the safe rectangle
InMargin(block, edge, safe, occupied) ==
    CASE edge = "top" -> block.y + block.h <= safe.sy + occupied.top
      [] edge = "bottom" -> block.y >= safe.sy + safe.sh - occupied.bottom
      [] edge = "left" -> block.x + block.w <= safe.sx + occupied.left
      [] OTHER -> block.x >= safe.sx + safe.sw - occupied.right
\* the block and the rectangle <<x, y, w, h>> share a pixel
MeetsArea(block, area) ==
    /\ block.x < area[1] + area[3] /\ area[1] < block.x + block.w
    /\ block.y < area[2] + area[4] /\ area[2] < block.y + block.h
MarginsHold(plan) ==
    \A g \in 1 .. Len(plan.groups) :
        \A edge \in {"top", "bottom", "left", "right"} :
            OnEdge(plan.groups[g].key, edge)
                => /\ InMargin(plan.groups[g].block, edge, plan.safe, plan.occupied)
                   /\ ~MeetsArea(plan.groups[g].block, plan.hero_area)
\* C24: for every group whose key has an edge word (top, bottom, left or
\* right), the block drawn for the group lies within the margin reserved in
\* pass 1 on that edge, and so does not intersect the hero-area rectangle
\* handed to the compositor
C24_MarginsHold ==
    rq # Idle =>
        \A k \in 1 .. 2 : \A i \in 1 .. Len(PlansOf(k)) : MarginsHold(PlansOf(k)[i])

\* n percent of the safe height, at least 3
PercentOfHeight(n, safe) ==
    IF (n * safe.sh) \div 100 < 3 THEN 3 ELSE (n * safe.sh) \div 100
\* the spacing between two adjacent members of a stack: the logo spacing
\* next to a logo, the copy/cta spacing between copy and cta, the generic
\* spacing otherwise
PairSpacing(plan, a, b) ==
    IF "logo" \in {a, b} /\ {a, b} \cap {"copy", "cta"} # {}
    THEN PercentOfHeight(IF plan.fmt.height > plan.fmt.width THEN 5 ELSE 6, plan.safe)
    ELSE IF {a, b} = {"copy", "cta"}
         THEN PercentOfHeight(IF plan.fmt.height > plan.fmt.width THEN 2
                              ELSE IF plan.fmt.width = plan.fmt.height
                                      \/ <<plan.fmt.width, plan.fmt.height>>
                                             \in {<<300, 250>>, <<336, 280>>}
                                   THEN 3 ELSE 5,
                              plan.safe)
    ELSE GenericGap(plan.safe)
\* the heights of the members and the spacings between them, added up
RECURSIVE StackSum(_, _)
StackSum(plan, placed) ==
    IF placed = <<>> THEN 0
    ELSE IF Len(placed) = 1 THEN placed[1].h
    ELSE placed[1].h + PairSpacing(plan, placed[1].name, placed[2].name)
             + StackSum(plan, Tail(placed))
StackedInBlock(plan, g) ==
    /\ g.block.h = StackSum(plan, g.placed)
    /\ \A m \in 1 .. Len(g.placed) :
           /\ g.placed[m].w <= g.block.w
           /\ g.placed[m].x = g.block.x + (g.block.w - g.placed[m].w) \div 2
    /\ \E m \in 1 .. Len(g.placed) : g.placed[m].w = g.block.w
    /\ g.placed[1].y = g.block.y
    /\ \A m \in 1 .. Len(g.placed) - 1 :
           g.placed[m + 1].y
               = g.placed[m].y + g.placed[m].h
                 + PairSpacing(plan, g.placed[m].name, g.placed[m + 1].name)
    /\ g.placed[Len(g.placed)].y + g.placed[Len(g.placed)].h = g.block.y + g.block.h
\* C25: a group's block height is the sum of its members' heights plus one
\* spacing per adjacent pair in stacking order (logo next to copy or cta:
\* logo spacing; copy next to cta: copy/cta spacing; otherwise the generic
\* spacing), its width is that of the widest member; the first member is at
\* the block origin, each next one lower by the member's height plus the
\* pair's spacing, each is centred horizontally in the block, and the last
\* member's bottom edge is at block origin y + block height
C25_StackingGeometry ==
    rq # Idle =>
        \A k \in 1 .. 2 : \A i \in 1 .. Len(PlansOf(k)) :
            \A g \in 1 .. Len(PlansOf(k)[i].groups) :
                StackedInBlock(PlansOf(k)[i], PlansOf(k)[i].groups[g])
\* a stack of logo, copy and cta on the 1200x628 format, where the three
\* spacings differ: logo spacing 32 after the logo, copy/cta spacing 27
\* after the copy, and members of three different widths
C25_Witness ==
    /\ rq # Idle /\ Len(PlansOf(1)) >= 1
    /\ PlansOf(1)[1].fmt = Fmt("wide", 1200, 628)
    /\ Len(PlansOf(1)[1].groups) = 1
    /\ Len(PlansOf(1)[1].groups[1].placed) = 3
    /\ PlansOf(1)[1].groups[1].placed[1].name = "logo"
    /\ PlansOf(1)[1].groups[1].placed[2].y
           = PlansOf(1)[1].groups[1].placed[1].y + PlansOf(1)[1].groups[1].placed[1].h + 32
    /\ PlansOf(1)[1].groups[1].placed[3].y
           = PlansOf(1)[1].groups[1].placed[2].y + PlansOf(1)[1].groups[1].placed[2].h + 27
    /\ PlansOf(1)[1].groups[1].placed[3].w < PlansOf(1)[1].groups[1].placed[1].w
    /\ PlansOf(1)[1].groups[1].placed[1].w < PlansOf(1)[1].groups[1].placed[2].w
    /\ PlansOf(1)[1].groups[1].placed[3].x > PlansOf(1)[1].groups[1].placed[1].x
    /\ GenericGap(PlansOf(1)[1].safe) = 10

(***************************************************************************)
(* Properties of the hero placement                                        *)
(***************************************************************************)
\* the compositor took the usable-hero branch
HeroPlaced == Painted /\ cv.out.regime = "hero"
\* twice the hero centroid and twice the hero-area centre, per axis
Centroid2(bbox, axis) == bbox[axis] + bbox[axis + 2]
AreaCentre2(area, axis) == 2 * area[axis] + area[axis + 2]
\* the crop origin that puts the scaled centroid at the area centre
IdealOrigin(scale, c2, t2) == FSubHalf(FMulHalf(scale, c2), t2)
OriginInRange(ideal, limit) ==
    FCmp(ideal, FromInt(0)) >= 0 /\ FCmp(ideal, FromInt(limit)) <= 0
NearestBound(ideal, limit) == IF FCmp(ideal, FromInt(0)) < 0 THEN 0 ELSE limit
\* the centroid, at c2 / 2 in a source i wide that was resized to r, lies
\* within one pixel of t2 / 2 in the canvas cropped at origin
WithinOnePixel(i, r, origin, c2, t2) ==
    AbsInt(c2 * r - 2 * i * origin - t2 * i) <= 2 * i
AxisIdeal(axis) ==
    IdealOrigin(cv.out.scale, Centroid2(cv.bbox, axis), AreaCentre2(cv.area, axis))
AxisLimit(axis) == cv.out.resized[axis] - (IF axis = 1 THEN cv.tw ELSE cv.th)
AxisInRange(axis) == OriginInRange(AxisIdeal(axis), AxisLimit(axis))
AxisCentred(axis) ==
    WithinOnePixel(IF axis = 1 THEN cv.iw ELSE cv.ih, cv.out.resized[axis],
                   cv.out.crop[axis], Centroid2(cv.bbox, axis),
                   AreaCentre2(cv.area, axis))
\* C26: in the usable-hero regime, if the crop origin that puts the scaled
\* hero centroid at the centre of the hero area lies within [0, resizedW -
\* targetW] x [0, resizedH - targetH], the centroid lands within 1 pixel of
\* the hero-area centre on both axes; otherwise, on each axis where it does
\* not, the crop origin is the nearest bound (0 or resized - target)
C26_HeroCentering ==
    HeroPlaced =>
        /\ (AxisInRange(1) /\ AxisInRange(2)) => (AxisCentred(1) /\ AxisCentred(2))
        /\ \A axis \in {1, 2} :
               ~AxisInRange(axis)
                   => cv.out.crop[axis] = NearestBound(AxisIdeal(axis), AxisLimit(axis))
\* a hero placed with the ideal origin in range on both axes, in an image
\* that was scaled down and cropped away from its left edge
C26_Witness ==
    /\ HeroPlaced
    /\ AxisInRange(1) /\ AxisInRange(2)
    /\ cv.out.crop[1] > 0
    /\ cv.out.resized[1] < cv.iw
    /\ AxisCentred(1) /\ AxisCentred(2)

\* the hero's extent along the axis, scaled by the final scale, and the
\* prominence fraction of the hero area's extent: exact products
ScaledHero(axis) ==
    Fl(cv.out.scale.p * (cv.bbox[axis + 2] - cv.bbox[axis]),
       cv.out.scale.s * (cv.bbox[axis + 2] - cv.bbox[axis]),
       cv.out.scale.d, cv.out.scale.e)
ProminentPart(axis) ==
    Fl(HeroProminence.p * cv.area[axis + 2], HeroProminence.s * cv.area[axis + 2],
       HeroProminence.d, HeroProminence.e)
\* the two scales the final scale is the larger of
HeroScale ==
    FMinInf(ScaleNeededForHero(cv.area[3], cv.bbox[3] - cv.bbox[1]),
            ScaleNeededForHero(cv.area[4], cv.bbox[4] - cv.bbox[2]))
CoverScale == ScaleToCoverCanvas(cv.iw, cv.ih, cv.tw, cv.th)
\* the sign of x - y, and the same with the rounding errors of the doubles
\* left out
Exactly(x, y) == FCmp(x, y)
UpToRounding(x, y) == Sign(x.p * y.d - y.p * x.d)
\* C27 as stated, on the doubles as they are: when the hero scale is at
\* least the cover scale, the scaled hero is at most the prominence
\* fraction of the hero area on both axes and equal to it on one; it exceeds
\* the fraction only when the cover scale is the larger scale
C27_ExactProminence ==
    HeroPlaced =>
        /\ FCmp(HeroScale, CoverScale) >= 0 =>
               /\ \A axis \in {1, 2} : Exactly(ScaledHero(axis), ProminentPart(axis)) <= 0
               /\ \E axis \in {1, 2} : Exactly(ScaledHero(axis), ProminentPart(axis)) = 0
        /\ (\E axis \in {1, 2} : Exactly(ScaledHero(axis), ProminentPart(axis)) > 0)
               => FCmp(CoverScale, HeroScale) > 0
\* C27: in the usable-hero regime, whenever the hero scale is at least the
\* cover scale, heroW * finalScale <= prominence * heroAreaW and heroH *
\* finalScale <= prominence * heroAreaH with equality on the tighter axis,
\* and the scaled hero exceeds the prominence fraction only when the cover
\* scale is the larger of the two scales; all comparisons up to the rounding
\* error of the double operations
C27_HeroProminence ==
    HeroPlaced =>
        /\ FCmp(HeroScale, CoverScale) >= 0 =>
               /\ \A axis \in {1, 2} :
                      UpToRounding(ScaledHero(axis), ProminentPart(axis)) <= 0
               /\ \E axis \in {1, 2} :
                      UpToRounding(ScaledHero(axis), ProminentPart(axis)) = 0
        /\ (\E axis \in {1, 2} : UpToRounding(ScaledHero(axis), ProminentPart(axis)) > 0)
               => FCmp(CoverScale, HeroScale) > 0
\* a hero scaled by its prominence scale, above the cover scale: the fraction
\* is met on one axis and not reached on the other
C27_Witness ==
    /\ HeroPlaced
    /\ FCmp(HeroScale, CoverScale) > 0
    /\ \E axis \in {1, 2} : UpToRounding(ScaledHero(axis), ProminentPart(axis)) = 0
    /\ \E axis \in {1, 2} : UpToRounding(ScaledHero(axis), ProminentPart(axis)) < 0

(***************************************************************************)
(* The reference scale of a format                                         *)
(***************************************************************************)
\* the logo's share of the safe area as a fraction <<numerator, denominator>>:
\* 2.15% square or 300x250 or 336x280, 2% portrait, 3.5% landscape
LogoShare(fmt) ==
    IF fmt.width = fmt.height
       \/ <<fmt.width, fmt.height>> \in {<<300, 250>>, <<336, 280>>} THEN <<43, 2000>>
    ELSE IF fmt.height > fmt.width THEN <<1, 50>>
    ELSE <<7, 200>>
\* the sides of the logo image with their common divisor taken out
Reduced(logo) == <<logo[1] \div Gcd(logo[1], logo[2]), logo[2] \div Gcd(logo[1], logo[2])>>
\* floor(sqrt(share * safeW * safeH / aspect)), aspect = a[1] / a[2]
SizedHeight(share, safe, a) ==
    Isqrt((share[1] * safe.sw * safe.sh * a[2]) \div (share[2] * a[1]))
\* the sized logo: height as above, width floor(height * aspect), each side
\* at most the safe side
SizedLogo(fmt, safe, a) ==
    <<Min2((SizedHeight(LogoShare(fmt), safe, a) * a[1]) \div a[2], safe.sw),
      Min2(SizedHeight(LogoShare(fmt), safe, a), safe.sh)>>
ShorterSide(box) == IF box[1] < box[2] THEN box[1] ELSE box[2]
ClaimedRef(plan, logo) ==
    IF ~NotDrawn(plan, "logo")
       /\ SizedLogo(plan.fmt, plan.safe, Reduced(logo))[1] > 0
       /\ SizedLogo(plan.fmt, plan.safe, Reduced(logo))[2] > 0
    THEN ShorterSide(SizedLogo(plan.fmt, plan.safe, Reduced(logo)))
    ELSE Isqrt((plan.safe.sw * plan.safe.sh) \div 50)
\* every CTA of the pass, as measured and as drawn, is ref high
CtaHeightsAre(plan, ref) ==
    /\ \A g \in 1 .. Len(plan.footprints) : \A m \in 1 .. Len(plan.footprints[g].members) :
           plan.footprints[g].members[m].name = "cta"
               => plan.footprints[g].members[m].h = ref
    /\ \A g \in 1 .. Len(plan.groups) : \A m \in 1 .. Len(plan.groups[g].placed) :
           plan.groups[g].placed[m].name = "cta" => plan.groups[g].placed[m].h = ref
RefAsClaimed(plan, logo) ==
    /\ plan.lss_ref = ClaimedRef(plan, logo)
    /\ CtaHeightsAre(plan, plan.lss_ref)
    /\ plan.ac_target_h = (5 * plan.lss_ref) \div 4
\* C28: for each format the reference scale is the shorter side of the sized
\* logo (area share 2.15% for square or 300x250/336x280, 2% portrait, 3.5%
\* landscape, aspect kept, each side at most the safe side) when a logo is
\* shown for the format and both sides are positive, and floor(sqrt(0.02 *
\* safeW * safeH)) otherwise; the same value is the CTA height and gives the
\* copy's target line height floor(1.25 * ref), in both passes
C28_ReferenceScale ==
    rq # Idle /\ rq.pc = "loop" =>
        \A i \in 1 .. Len(rq.produced) : RefAsClaimed(rq.produced[i], rq.req.brandLogo)
\* two formats rendered with logo and CTA: the references are the short
\* sides of the logos, not the logo-free values, and differ
C28_Witness ==
    /\ rq # Idle /\ rq.pc = "loop"
    /\ Len(rq.produced) = 2
    /\ \A i \in 1 .. 2 :
           /\ ~NotDrawn(rq.produced[i], "logo")
           /\ ~NotDrawn(rq.produced[i], "cta")
           /\ rq.produced[i].lss_ref
                  # Isqrt((rq.produced[i].safe.sw * rq.produced[i].safe.sh) \div 50)
    /\ rq.produced[1].lss_ref # rq.produced[2].lss_ref

(***************************************************************************)
(* The metrics of a wrapped copy block (lines 507-515, 694-702), computed  *)
(* on their own                                                            *)
(***************************************************************************)
CopyLineHeights == 0 .. 40
CopyLineLists ==
    {<<>>, <<<<"a">>>>, <<<<"a", "a">>, <<"a">>>>,
     <<<<"a">>, <<"a", "a", "a">>, <<"a", "a">>>>}
CopySizes == {10, 20}
CopySafeWidths == {12, 1000}
CopyInit ==
    /\ rq \in [pc : {"call"}, line_h : CopyLineHeights, lines : CopyLineLists,
               size : CopySizes, sw : CopySafeWidths]
    /\ cv = Idle
    /\ ff = Idle
    /\ wf = Idle
CopyMetrics ==
    /\ rq # Idle
    /\ rq.pc = "call"
    /\ rq' = [rq EXCEPT !.pc = "return"]
               @@ [out |-> CopyMeasured([lines |-> rq.lines,
                                         font |-> Font("ttf", 10, 0, 100),
                                         ac_font_sz |-> rq.size],
                                        rq.line_h, rq.sw)]
    /\ UNCHANGED <<cv, ff, wf>>
CopyNext == CopyMetrics
SpecCopy == CopyInit /\ [][CopyNext]_vars

\* round(0.2 * L) for an integer L >= 0: L / 5 is never half-way
RoundFifth(L) == (2 * L + 5) \div 10
\* the width the font measures for the widest line
RECURSIVE WidestLine(_, _)
WidestLine(lines, size) ==
    IF lines = <<>> THEN 0
    ELSE IF (AdvanceSum(Head(lines)) * size) > WidestLine(Tail(lines), size)
         THEN AdvanceSum(Head(lines)) * size
    ELSE WidestLine(Tail(lines), size)
\* C29: for every line height L and line count n the line spacing is
\* round(0.2 * L), the copy block height is n * L + (n - 1) * spacing, 0 when
\* n = 0, and the block width is the maximum measured line width
C29_CopyMetrics ==
    rq # Idle /\ rq.pc = "return" =>
        /\ rq.out.line_spacing = RoundFifth(rq.line_h)
        /\ rq.out.height = (IF Len(rq.lines) = 0 THEN 0
                            ELSE Len(rq.lines) * rq.line_h
                                 + (Len(rq.lines) - 1) * RoundFifth(rq.line_h))
        /\ rq.out.width = WidestLine(rq.lines, rq.size)

\* C30: whatever path the shrink loop takes (fit found at the start size,
\* fit found after decrements, or the minimum size 10 reached without a
\* fit), the lines returned are exactly the greedy word wrap of the text
\* computed at the returned final font size
C30_WrapAtFinalSize ==
    Fitted => wf.lines = GreedyWrap(wf.content, wf.font, wf.ac_font_sz, wf.max_w)
=============================================================================
